---- MODULE Spec2Model ----
(***************************************************************************)
(* Model of the IndexedDB-on-SQLite engine: the per-database transaction   *)
(* scheduler, the transaction life cycle (active / inactive / committing / *)
(* finished, savepoints, auto-commit), the request event pipeline on top   *)
(* of the host's task and microtask queues, and the open/upgrade steps.    *)
(*                                                                         *)
(* One database name is modelled; it exists at version 1 with the object   *)
(* stores of Stores, each holding at most one record.  User code runs only *)
(* while ctx.kind # "idle": in the initial script and inside listeners.    *)
(***************************************************************************)
EXTENDS Integers, Sequences, FiniteSets, TLC

\* ---- bounds ----
MaxTxn == 2          \* Spec: transactions created in one behaviour
MaxReq == 2          \* Spec: requests created in one behaviour
SchedMaxTxn == 3     \* SpecSched: transactions created in one behaviour
SchedMaxReq == 1     \* SpecSched: requests created in one behaviour
OpenMaxTxn == 2      \* SpecOpen: transactions, upgrade transactions included
OpenMaxReq == 1      \* SpecOpen: requests created in one behaviour
MaxConn == 2         \* SpecOpen: connections, the initial one included
MaxVersion == 2      \* SpecOpen: largest version passed to open()

Stores == {"s1", "s2"}
Scopes == (SUBSET Stores) \ {{}}
Modes == {"readonly", "readwrite"}

VARIABLES
  txns,        \* Seq of IDBTransaction objects, in creation order
  reqs,        \* Seq of IDBRequest objects, in creation order
  queue,       \* DatabaseScheduler._queue
  tasks,       \* host task queue (setTimeout(fn, 0)), FIFO
  micro,       \* host microtask queue (queueMicrotask), FIFO
  ctx,         \* the synchronous code that is running now
  records,     \* SQLite content seen on the shared connection, per store
  savepoints,  \* SQLite savepoint stack of the shared connection
  conns,       \* Seq of IDBDatabase connections with their open requests
  dbVersion,   \* version stored in the metadata database
  schema,      \* SQLite tables object_stores and indexes: the names they hold
  seen,        \* what the last getter or rejected call gave back to user code
  table,       \* one object store in SQLite: records, index_entries, current_key
  cursor,      \* an IDBCursor on that store or on its index
  handles      \* store and index handles of an upgrade and what it records of them

vars == <<txns, reqs, queue, tasks, micro, ctx, records, savepoints, conns, dbVersion,
          schema, seen, table, cursor, handles>>

\* ---- values ----
NoError == [name |-> "null", req |-> 0]
AbortError == [name |-> "AbortError", req |-> 0]
ConstraintError(r) == [name |-> "ConstraintError", req |-> r]

Idle == [kind |-> "idle", txn |-> 0, req |-> 0, rest |-> <<>>]
Ctx(k, t, r, rest) == [kind |-> k, txn |-> t, req |-> r, rest |-> rest]

Task(type, id, rs) == [type |-> type, id |-> id, reqs |-> rs]
Micro(type, t) == [type |-> type, txn |-> t]

\* The mutable world, packed so that nested calls compose.
World == [txns |-> txns, reqs |-> reqs, queue |-> queue, tasks |-> tasks,
          micro |-> micro, records |-> records, savepoints |-> savepoints,
          conns |-> conns, dbVersion |-> dbVersion, schema |-> schema,
          seen |-> seen, table |-> table, cursor |-> cursor,
          handles |-> handles]

Install(w) ==
  /\ txns' = w.txns
  /\ reqs' = w.reqs
  /\ queue' = w.queue
  /\ tasks' = w.tasks
  /\ micro' = w.micro
  /\ records' = w.records
  /\ savepoints' = w.savepoints
  /\ conns' = w.conns
  /\ dbVersion' = w.dbVersion
  /\ schema' = w.schema
  /\ seen' = w.seen
  /\ table' = w.table
  /\ cursor' = w.cursor
  /\ handles' = w.handles

\* queueTask(fn): setTimeout(fn, 0)
\* a task queue that runs the newest task first
queueTaskNewestFirst(q, t) == <<t>> \o q

queueTask(q, t) == Append(q, t)

\* queueMicrotask(fn)
queueMicrotask(q, m) == Append(q, m)

\* ---- transaction scheduler ----
_scopesOverlap(a, b) == a \cap b # {}

\* _canStart without its first loop: started transactions no longer block.
_canStartIgnoringStarted(q, i) ==
  \A j \in 1..(i - 1) :
    (~q[j].started /\ _scopesOverlap(q[i].scope, q[j].scope))
      => ~(q[i].mode = "readwrite" \/ q[j].mode = "readwrite")

\* _canStart without its second loop: earlier waiting transactions no longer block.
_canStartIgnoringWaiting(q, i) ==
  \A j \in 1..(i - 1) :
    (q[j].started /\ _scopesOverlap(q[i].scope, q[j].scope))
      => ~(q[i].mode = "readwrite" \/ q[j].mode = "readwrite")

_canStart(q, i) ==
  /\ \A j \in 1..(i - 1) :
       (q[j].started /\ _scopesOverlap(q[i].scope, q[j].scope))
         => ~(q[i].mode = "readwrite" \/ q[j].mode = "readwrite")
  /\ \A j \in 1..(i - 1) :
       (~q[j].started /\ _scopesOverlap(q[i].scope, q[j].scope))
         => ~(q[i].mode = "readwrite" \/ q[j].mode = "readwrite")

RECURSIVE ProcessFrom(_, _, _)
ProcessFrom(q, m, i) ==
  IF i > Len(q) THEN [queue |-> q, micro |-> m]
  ELSE IF ~q[i].started /\ _canStart(q, i)
       THEN ProcessFrom([q EXCEPT ![i].started = TRUE],
                        queueMicrotask(m, Micro("start", q[i].txn)), i + 1)
       ELSE ProcessFrom(q, m, i + 1)

\* _processQueue with the first statement of onStart (_schedulerStart sets
\* _started) run inside the call instead of on the queued microtask
_processQueueReentrant(w) ==
  LET r == ProcessFrom(w.queue, w.micro, 1)
      now == {r.queue[i].txn : i \in {j \in 1..Len(r.queue) :
                                        r.queue[j].started /\ ~w.queue[j].started}}
  IN  [w EXCEPT !.queue = r.queue, !.micro = r.micro,
                !.txns = [t \in DOMAIN @ |->
                            IF t \in now THEN [@[t] EXCEPT !.started = TRUE] ELSE @[t]]]

_processQueue(w) ==
  LET r == ProcessFrom(w.queue, w.micro, 1)
  IN  [w EXCEPT !.queue = r.queue, !.micro = r.micro]

addTransaction(w, t) ==
  _processQueue([w EXCEPT !.queue =
     Append(@, [txn |-> t, scope |-> w.txns[t].storeNames,
                mode |-> w.txns[t].mode, started |-> FALSE])])

RemoveEntry(q, t) == SelectSeq(q, LAMBDA e : e.txn # t)

transactionFinished(w, t) ==
  _processQueue([w EXCEPT !.queue = RemoveEntry(@, t)])

\* ---- SQLite savepoints (one connection, one stack) ----
HasSavepoint(sp, t) == \E i \in 1..Len(sp) : sp[i].name = t

\* index of the most recent savepoint with this name
TopSavepoint(sp, t) ==
  CHOOSE i \in 1..Len(sp) :
    sp[i].name = t /\ \A j \in (i + 1)..Len(sp) : sp[j].name # t

beginSavepoint(w, t) ==
  [w EXCEPT !.savepoints = Append(@, [name |-> t, snap |-> w.records,
                                      schema |-> w.schema, table |-> w.table])]

\* RELEASE removes the named savepoint and every later one; it fails when
\* the name is not on the stack.
releaseSavepoint(w, t) ==
  [w EXCEPT !.savepoints = SubSeq(@, 1, TopSavepoint(@, t) - 1)]

\* ROLLBACK TO restores the content at the savepoint and cancels the later
\* savepoints; the RELEASE that follows removes the savepoint itself.
rollbackSavepoint(w, t) ==
  LET i == TopSavepoint(w.savepoints, t)
  IN  [w EXCEPT !.records = w.savepoints[i].snap,
                !.schema = w.savepoints[i].schema,
                !.table = w.savepoints[i].table,
                !.savepoints = SubSeq(@, 1, i - 1)]

_ensureSavepoint(w, t) ==
  IF ~w.txns[t].savepointStarted
  THEN [beginSavepoint(w, t) EXCEPT !.txns[t].savepointStarted = TRUE]
  ELSE w

\* ---- IDBTransaction ----
NewTransaction(c, scope, mode, sched) ==
  [conn |-> c, mode |-> mode, storeNames |-> scope, state |-> "active",
   error |-> NoError, aborted |-> FALSE, started |-> FALSE,
   useScheduler |-> sched, commitOnStart |-> FALSE,
   savepointStarted |-> FALSE, pendingRequestCount |-> 0,
   pendingCallbacks |-> <<>>,
   completeFired |-> 0, abortFired |-> 0]   \* ghost: events dispatched on it

NewRequest(t, kind, s) ==
  [txn |-> t, kind |-> kind, store |-> s, readyState |-> "pending",
   error |-> NoError, constraintError |-> FALSE,
   gotValue |-> FALSE,       \* IDBCursor._gotValue of the cursor it carries
   continueCalled |-> FALSE, \* IDBCursor._continueCalled
   delivered |-> "none",     \* ghost: event dispatched on it
   threw |-> FALSE,          \* ghost: a listener threw during its dispatch
   prevented |-> FALSE]      \* ghost: a listener called preventDefault

ReqIndices(w) == [i \in 1..Len(w.reqs) |-> i]

\* release failed: the abort event is dispatched at once and the function
\* returns without notifying the scheduler
commitFailed(w, t) ==
  [w EXCEPT !.txns[t].error = AbortError,
            !.txns[t].state = "finished",
            !.txns[t].abortFired = @ + 1]

_commitWhenDone(w, t) ==
  IF w.txns[t].state = "finished" \/ w.txns[t].aborted THEN w
  ELSE IF w.txns[t].savepointStarted /\ ~HasSavepoint(w.savepoints, t)
  THEN commitFailed(w, t)
  ELSE LET w1 == IF w.txns[t].savepointStarted
                 THEN [releaseSavepoint(w, t) EXCEPT !.txns[t].savepointStarted = FALSE]
                 ELSE w
       IN  [w1 EXCEPT !.txns[t].state = "finished",
                      !.tasks = queueTask(@, Task("complete", t, <<>>))]

_maybeAutoCommit(w, t) ==
  IF /\ w.txns[t].state = "inactive"
     /\ ~w.txns[t].aborted
     /\ w.txns[t].pendingRequestCount <= 0
  THEN IF w.txns[t].useScheduler /\ ~w.txns[t].started
       THEN [w EXCEPT !.txns[t].commitOnStart = TRUE]
       ELSE _commitWhenDone([w EXCEPT !.txns[t].state = "committing"], t)
  ELSE w

_requestFinished(w, t) ==
  _maybeAutoCommit([w EXCEPT !.txns[t].pendingRequestCount = @ - 1], t)

_deactivate(w, t) ==
  IF w.txns[t].state = "active" THEN [w EXCEPT !.txns[t].state = "inactive"] ELSE w

commit(w, t) == _commitWhenDone([w EXCEPT !.txns[t].state = "committing"], t)

\* abort() that overwrites every request of the transaction, the ones that
\* are done included
EveryRequest(w, t) ==
  SelectSeq(ReqIndices(w), LAMBDA r : w.reqs[r].txn = t)

\* the requests abort() turns into done-with-error: those still pending
PendingRequests(w, t) ==
  SelectSeq(ReqIndices(w),
            LAMBDA r : w.reqs[r].txn = t /\ w.reqs[r].readyState = "pending")

InSeq(x, sq) == \E i \in 1..Len(sq) : sq[i] = x

\* _revertMetadata: the names are read back from the rolled-back tables
_revertMetadata(w, t) == [w EXCEPT !.txns[t].storeNames = w.schema.stores]

abort(w, t) ==
  LET w1 == [w EXCEPT !.txns[t].aborted = TRUE,
                      !.txns[t].state = "inactive",
                      !.txns[t].error = IF @ = NoError THEN AbortError ELSE @]
      w2 == IF w1.txns[t].savepointStarted
            THEN [(IF HasSavepoint(w1.savepoints, t)
                   THEN rollbackSavepoint(w1, t)
                   ELSE w1)     \* the statement throws; the error is ignored
                  EXCEPT !.txns[t].savepointStarted = FALSE]
            ELSE w1
      w3 == IF w2.txns[t].mode = "versionchange" THEN _revertMetadata(w2, t) ELSE w2
      pend == PendingRequests(w3, t)
  IN  [w3 EXCEPT
         !.reqs = [r \in DOMAIN @ |->
                     IF InSeq(r, pend)
                     THEN [@[r] EXCEPT !.readyState = "done",
                                       !.error = w3.txns[t].error]
                     ELSE @[r]],
         !.txns[t].pendingCallbacks = <<>>,
         !.tasks = queueTask(@, Task("abort", t, pend))]

\* ---- requests: the storage work of one request ----
WriteKinds == {"put", "add", "delete"}
ReadKinds == {"get", "indexGet"}

Written(t) == [present |-> TRUE, writer |-> t]
Deleted(t) == [present |-> FALSE, writer |-> t]

storeOperation(w, r) ==
  LET t == w.reqs[r].txn
      s == w.reqs[r].store
      k == w.reqs[r].kind
      ws == _ensureSavepoint(w, t)
  IN  CASE k = "put" ->
             [ws EXCEPT !.records[s] = Written(t), !.reqs[r].readyState = "done"]
        [] k = "add" ->
             IF ws.records[s].present
             THEN [ws EXCEPT !.reqs[r].readyState = "done",
                             !.reqs[r].error = ConstraintError(r),
                             !.reqs[r].constraintError = TRUE]
             ELSE [ws EXCEPT !.records[s] = Written(t), !.reqs[r].readyState = "done"]
        [] k = "delete" ->
             [ws EXCEPT !.records[s] = IF @.present THEN Deleted(t) ELSE @,
                        !.reqs[r].readyState = "done"]
        [] k = "clear" ->
             [ws EXCEPT !.records[s] = IF @.present THEN Deleted(t) ELSE @,
                        !.reqs[r].readyState = "done"]
        [] k = "openCursor" ->
             [w EXCEPT !.reqs[r].gotValue = w.records[s].present,
                       !.reqs[r].readyState = "done"]
        [] OTHER ->
             [w EXCEPT !.reqs[r].readyState = "done"]

_createRequest(w, t, kind, s) ==
  [w EXCEPT !.reqs = Append(@, NewRequest(t, kind, s)),
            !.txns[t].pendingRequestCount = @ + 1]

\* _queueOperation without the buffering of a transaction that waits for its start
_queueOperationUnbuffered(w, t, r) ==
  [storeOperation(w, r) EXCEPT !.tasks = queueTask(@, Task("event", r, <<>>))]

_queueOperation(w, t, r) ==
  IF w.txns[t].useScheduler /\ ~w.txns[t].started
  THEN [w EXCEPT !.txns[t].pendingCallbacks = Append(@, r)]
  ELSE [storeOperation(w, r) EXCEPT !.tasks = queueTask(@, Task("event", r, <<>>))]

\* the buffered callbacks run from the newest to the oldest
RECURSIVE FlushNewestFirst(_, _)
FlushNewestFirst(w, cbs) ==
  IF cbs = <<>> THEN w
  ELSE FlushNewestFirst([storeOperation(w, cbs[Len(cbs)]) EXCEPT
                           !.tasks = queueTask(@, Task("event", cbs[Len(cbs)], <<>>))],
                        SubSeq(cbs, 1, Len(cbs) - 1))

\* _schedulerStart: for (const cb of this._pendingCallbacks) cb()
RECURSIVE Flush(_, _)
Flush(w, cbs) ==
  IF cbs = <<>> THEN w
  ELSE Flush([storeOperation(w, Head(cbs)) EXCEPT
                 !.tasks = queueTask(@, Task("event", Head(cbs), <<>>))],
             Tail(cbs))

_schedulerStart(w, t) ==
  LET w1 == Flush([w EXCEPT !.txns[t].started = TRUE], w.txns[t].pendingCallbacks)
      w2 == [w1 EXCEPT !.txns[t].pendingCallbacks = <<>>]
  IN  IF w2.txns[t].commitOnStart
      THEN _maybeAutoCommit([w2 EXCEPT !.txns[t].commitOnStart = FALSE], t)
      ELSE w2

\* ---- connections ----
\* before: the metadata found when the upgrade of this connection began
NoMetadata == [schema |-> [stores |-> {}, indexes |-> {}], version |-> 0]

NewConnection(v) ==
  [status |-> "queued", version |-> v, upgradeTxn |-> 0, before |-> NoMetadata]

QueuedOpens == Cardinality({c \in 1..Len(conns) : conns[c].status = "queued"})

\* _versionChangeTransactionFinished with the callback set by _runOpenSteps
_versionChangeTransactionFinished(w, t, aborted) ==
  LET c == w.txns[t].conn
  IN  IF w.conns[c].upgradeTxn # t THEN w     \* _onVersionChangeComplete is null
      ELSE IF aborted
      THEN [w EXCEPT !.conns[c].version = w.dbVersion,
                     !.conns[c].upgradeTxn = 0,
                     !.conns[c].status = "aborted"]
      ELSE [w EXCEPT !.dbVersion = w.conns[c].version,
                     !.conns[c].upgradeTxn = 0,
                     !.conns[c].status = "open"]

\* ---- what user code gets back: a value or an exception ----
Throws(n) == [threw |-> n, value |-> NoError]
Returns(v) == [threw |-> "none", value |-> v]

\* seen: the call, the object it was made on, the state that object was in
\* when the call was made, and the outcome
Seen(call, on, state, outcome) ==
  [call |-> call, on |-> on, state |-> state, outcome |-> outcome]

NothingSeen == Seen("none", 0, "none", Returns(NoError))

\* the same for a request on the store: its key and value arguments
DataSeen(call, key, arg, outcome) ==
  [call |-> call, key |-> key, arg |-> arg, outcome |-> outcome]

\* get result() of a request that skips the ready-state check
resultUnguarded(w, r) == Returns([name |-> "_result", req |-> r])

\* IDBRequest: get result()
result(w, r) ==
  IF w.reqs[r].readyState = "pending"
  THEN Throws("InvalidStateError")
  ELSE Returns([name |-> "_result", req |-> r])

\* IDBRequest: get error()
error(w, r) ==
  IF w.reqs[r].readyState = "pending"
  THEN Throws("InvalidStateError")
  ELSE Returns(w.reqs[r].error)

\* ---- data operations as user code calls them, rejections included ----
DataKinds == {"put", "add", "delete", "clear", "get", "count", "openCursor"}
CursorCalls == {"continue", "advance"}
ReadOnlyRejects == {"put", "add", "delete", "clear"}

\* _ensureValid without the check of the transaction's state
_ensureValidAnyState(w, t) == "none"

\* IDBObjectStore._ensureValid on a store that was not deleted
_ensureValid(w, t) ==
  IF w.txns[t].state # "active" THEN "TransactionInactiveError" ELSE "none"

\* IDBObjectStore.put/add/delete/clear/get/count/openCursor with valid arguments
storeRequest(w, t, kind, s) ==
  LET was == w.txns[t].state
      r == Len(w.reqs) + 1
  IN  IF _ensureValid(w, t) # "none"
      THEN [w EXCEPT !.seen = Seen(kind, t, was, Throws(_ensureValid(w, t)))]
      ELSE IF kind \in ReadOnlyRejects /\ w.txns[t].mode = "readonly"
      THEN [w EXCEPT !.seen = Seen(kind, t, was, Throws("ReadOnlyError"))]
      ELSE IF w.txns[t].state # "active"       \* _createRequest checks again
      THEN [w EXCEPT !.seen = Seen(kind, t, was, Throws("TransactionInactiveError"))]
      ELSE [_queueOperation(_createRequest(w, t, kind, s), t, r)
              EXCEPT !.seen = Seen(kind, t, was, Returns([name |-> "request", req |-> r]))]

\* IDBCursor.continue() / advance(1) of the cursor of request r; the store
\* holds at most one record, so the iteration finds no further record
cursorContinue(w, r, call) ==
  LET t == w.reqs[r].txn
      was == w.txns[t].state
  IN  IF w.txns[t].state # "active"
      THEN [w EXCEPT !.seen = Seen(call, t, was, Throws("TransactionInactiveError"))]
      ELSE IF w.reqs[r].continueCalled \/ ~w.reqs[r].gotValue
      THEN [w EXCEPT !.seen = Seen(call, t, was, Throws("InvalidStateError"))]
      ELSE [w EXCEPT !.reqs[r].continueCalled = TRUE,
                     !.reqs[r].gotValue = FALSE,
                     !.reqs[r].readyState = "done",     \* pending, then _fireResult
                     !.txns[t].pendingRequestCount = @ + 1,
                     !.tasks = queueTask(@, Task("event", r, <<>>)),
                     !.seen = Seen(call, t, was, Returns(NoError))]

\* ---- keys (keys.ts) ----
MagBits == 3         \* bits of a number's magnitude (63 in an IEEE-754 double)

\* a number key: its sign bit and its magnitude in halves (mag = 3 is 1.5);
\* -0 is the number with the sign bit set and magnitude 0
Num(sign, mag) == [sign |-> sign, mag |-> mag]
NoKey == [sign |-> 2, mag |-> 0]          \* null / undefined where a key may stand
PlusZero == Num(0, 0)
MinusZero == Num(1, 0)

\* the number as JavaScript compares it, in halves: -0 and 0 are the same number
NumberValue(k) == IF k.sign = 1 THEN 0 - k.mag ELSE k.mag

\* compareKeys on two numbers
compareKeys(a, b) ==
  IF NumberValue(a) = NumberValue(b) THEN 0
  ELSE IF NumberValue(a) < NumberValue(b) THEN 0 - 1 ELSE 1

\* encodeDouble: sign bit set -> all bits flipped, else the sign bit flipped;
\* the bytes are read as one unsigned number, which is how memcmp orders them
encodeDouble(k) ==
  IF k.sign = 1 THEN (2^MagBits - 1) - k.mag ELSE 2^MagBits + k.mag

\* encodeKey of a number: the tag byte is the same for all numbers
encodeKey(k) == encodeDouble(k)

\* Math.floor of a number key, as an integer
Floor(k) == IF k.sign = 1 THEN 0 - ((k.mag + 1) \div 2) ELSE k.mag \div 2

\* the number key of an integer that is not negative
Integer(n) == Num(0, 2 * n)

\* ---- keys of every type and their binary encoding (keys.ts) ----
MaxKeyLen == 2       \* code units of a string, bytes of a binary, items of an array

TAG_ARRAY_TERMINATOR == 0

\* a valid key: a number or a date holds num, a string its UTF-16 code units,
\* a binary its bytes, an array its items
Key(type, num, units, items) ==
  [type |-> type, num |-> num, units |-> units, items |-> items]

NumberKey(n) == Key("number", n, <<>>, <<>>)
DateKey(n) == Key("date", n, <<>>, <<>>)
StringKey(units) == Key("string", PlusZero, units, <<>>)
BinaryKey(bytes) == Key("binary", PlusZero, bytes, <<>>)
ArrayKey(items) == Key("array", PlusZero, <<>>, items)
UnknownTag == Key("error", PlusZero, <<>>, <<>>)     \* decodeKeyAt threw

keyType(key) ==
  CASE key.type = "number" -> 1
    [] key.type = "date" -> 2
    [] key.type = "string" -> 3
    [] key.type = "binary" -> 4
    [] OTHER -> 5

\* the tag byte that encodeKeyInto writes first
TagOf(key) ==
  CASE key.type = "number" -> 16
    [] key.type = "date" -> 32
    [] key.type = "string" -> 48
    [] key.type = "binary" -> 64
    [] OTHER -> 80

\* the shorter of two sequences that agree so far is the smaller one
compareLengths(x, y) ==
  IF Len(x) = Len(y) THEN 0 ELSE IF Len(x) < Len(y) THEN 0 - 1 ELSE 1

\* code units of two strings, or bytes of two binaries or of two encodings,
\* compared from the left as unsigned numbers
RECURSIVE compareUnsigned(_, _)
compareUnsigned(x, y) ==
  IF x = <<>> \/ y = <<>> THEN compareLengths(x, y)
  ELSE IF Head(x) # Head(y) THEN (IF Head(x) < Head(y) THEN 0 - 1 ELSE 1)
  ELSE compareUnsigned(Tail(x), Tail(y))

\* compareKeys on keys of every type (IDBFactory.cmp on two valid keys)
RECURSIVE cmp(_, _)
RECURSIVE cmpItems(_, _)
cmp(a, b) ==
  IF keyType(a) # keyType(b)
  THEN (IF keyType(a) < keyType(b) THEN 0 - 1 ELSE 1)
  ELSE CASE a.type \in {"number", "date"} -> compareKeys(a.num, b.num)
         [] a.type \in {"string", "binary"} -> compareUnsigned(a.units, b.units)
         [] OTHER -> cmpItems(a.items, b.items)

cmpItems(x, y) ==
  IF x = <<>> \/ y = <<>> THEN compareLengths(x, y)
  ELSE IF cmp(Head(x), Head(y)) # 0 THEN cmp(Head(x), Head(y))
  ELSE cmpItems(Tail(x), Tail(y))

\* a string's code units as big-endian pairs, U+0000 escaped as 00 01,
\* closed by 00 00
RECURSIVE encodeString(_)
encodeString(units) ==
  IF units = <<>> THEN <<0, 0>>
  ELSE (IF Head(units) = 0 THEN <<0, 1>>
        ELSE <<Head(units) \div 256, Head(units) % 256>>) \o encodeString(Tail(units))

\* a binary's bytes, 00 escaped as 00 01, closed by 00 00
RECURSIVE encodeBinary(_)
encodeBinary(bytes) ==
  IF bytes = <<>> THEN <<0, 0>>
  ELSE (IF Head(bytes) = 0 THEN <<0, 1>> ELSE <<Head(bytes)>>) \o encodeBinary(Tail(bytes))

\* encodeKey / encodeKeyInto: the bytes of a key; the eight bytes of a double
\* are one cell that holds encodeDouble's number
RECURSIVE encodeKeyInto(_)
RECURSIVE encodeItems(_)
encodeKeyInto(key) ==
  CASE key.type \in {"number", "date"} -> <<TagOf(key), encodeDouble(key.num)>>
    [] key.type = "string" -> <<TagOf(key)>> \o encodeString(key.units)
    [] key.type = "binary" -> <<TagOf(key)>> \o encodeBinary(key.units)
    [] OTHER -> <<TagOf(key)>> \o encodeItems(key.items) \o <<TAG_ARRAY_TERMINATOR>>

encodeItems(items) ==
  IF items = <<>> THEN <<>> ELSE encodeKeyInto(Head(items)) \o encodeItems(Tail(items))

\* what decodeKeyAt returns; offsets count from 0 as in the source
Decoded(key, nextOffset) == [key |-> key, nextOffset |-> nextOffset]

\* the inverse of encodeDouble on one cell
decodeDouble(cell) ==
  IF cell >= 2^MagBits THEN Num(0, cell - 2^MagBits)
  ELSE Num(1, (2^MagBits - 1) - cell)

\* decodeKeyAt, TAG_STRING: the loop over pairs of bytes
RECURSIVE decodeString(_, _, _)
decodeString(bytes, pos, chars) ==
  IF ~(pos + 1 < Len(bytes)) THEN Decoded(StringKey(chars), pos)
  ELSE IF bytes[pos + 1] = 0 /\ bytes[pos + 2] = 0
  THEN Decoded(StringKey(chars), pos + 2)
  ELSE IF bytes[pos + 1] = 0 /\ bytes[pos + 2] = 1
  THEN decodeString(bytes, pos + 2, Append(chars, 0))
  ELSE decodeString(bytes, pos + 2, Append(chars, bytes[pos + 1] * 256 + bytes[pos + 2]))

\* decodeKeyAt, TAG_BINARY: the loop over bytes
RECURSIVE decodeBinary(_, _, _)
decodeBinary(bytes, pos, data) ==
  IF ~(pos < Len(bytes)) THEN Decoded(BinaryKey(data), pos)
  ELSE IF pos + 1 < Len(bytes) /\ bytes[pos + 1] = 0 /\ bytes[pos + 2] = 0
  THEN Decoded(BinaryKey(data), pos + 2)
  ELSE IF pos + 1 < Len(bytes) /\ bytes[pos + 1] = 0 /\ bytes[pos + 2] = 1
  THEN decodeBinary(bytes, pos + 2, Append(data, 0))
  ELSE decodeBinary(bytes, pos + 1, Append(data, bytes[pos + 1]))

RECURSIVE decodeKeyAt(_, _)
RECURSIVE decodeArray(_, _, _)
decodeKeyAt(bytes, offset) ==
  LET tag == bytes[offset + 1]
  IN  CASE tag = 16 -> Decoded(NumberKey(decodeDouble(bytes[offset + 2])), offset + 2)
        [] tag = 32 -> Decoded(DateKey(decodeDouble(bytes[offset + 2])), offset + 2)
        [] tag = 48 -> decodeString(bytes, offset + 1, <<>>)
        [] tag = 64 -> decodeBinary(bytes, offset + 1, <<>>)
        [] tag = 80 -> decodeArray(bytes, offset + 1, <<>>)
        [] OTHER -> Decoded(UnknownTag, offset + 1)

\* decodeKeyAt, TAG_ARRAY: the loop over the items
decodeArray(bytes, pos, elements) ==
  IF pos < Len(bytes) /\ bytes[pos + 1] # TAG_ARRAY_TERMINATOR
  THEN decodeArray(bytes, decodeKeyAt(bytes, pos).nextOffset,
                   Append(elements, decodeKeyAt(bytes, pos).key))
  ELSE Decoded(ArrayKey(elements), IF pos < Len(bytes) THEN pos + 1 ELSE pos)

decodeKey(bytes) == decodeKeyAt(bytes, 0).key

\* ---- one object store and its index in SQLite (SQLiteBackend) ----
\* a stored value: what tells it from other values, and the property that the
\* index's key path reads
\* ik is that property when it is a number, items its elements when it is an array
Value(tag, ik) == [tag |-> tag, ik |-> ik, items |-> <<>>]
ArrayValue(tag, items) == [tag |-> tag, ik |-> NoKey, items |-> items]
Undefined == Value("undefined", NoKey)

\* encodeKey of an array of numbers, as a rank above every number's (TAG_ARRAY
\* is the largest tag); one rank per array
RECURSIVE encodeArrayItems(_, _)
encodeArrayItems(items, acc) ==
  IF items = <<>> THEN acc
  ELSE encodeArrayItems(Tail(items), acc * 2^(MagBits + 1) + encodeKey(Head(items)))

encodeArrayKey(items) == encodeArrayItems(items, 1)

\* extractKeyFromValue(value, idx.keyPath): null for a value without the property
hasIndexKey(value) == value.ik # NoKey \/ value.items # <<>>
extractKeyFromValue(value) ==
  IF value.items # <<>> THEN encodeArrayKey(value.items) ELSE encodeKey(value.ik)

EmptyTable ==
  [records |-> {}, index_entries |-> {}, current_key |-> 0, unique |-> TRUE,
   multiEntry |-> FALSE]

getRecord(tb, key) ==
  IF \E row \in tb.records : row.key = key
  THEN (CHOOSE row \in tb.records : row.key = key).value
  ELSE Undefined

\* INSERT OR REPLACE INTO records
putRecord(tb, key, value) ==
  [tb EXCEPT !.records = {row \in @ : row.key # key} \cup {[key |-> key, value |-> value]}]

deleteRecord(tb, key) == [tb EXCEPT !.records = {row \in @ : row.key # key}]

\* DELETE FROM records WHERE key >= lower AND key <= upper (both given, closed)
deleteRecordsInRange(tb, lower, upper) ==
  [tb EXCEPT !.records = {row \in @ : ~(row.key >= lower /\ row.key <= upper)}]

\* DELETE FROM records WHERE object_store_id = ?
clearRecords(tb) == [tb EXCEPT !.records = {}]

countRecords(tb) == Cardinality(tb.records)

\* excludePrimaryKey is NoKey when the caller passes undefined
checkUniqueIndexConstraint(tb, indexKey, excludePrimaryKey) ==
  \E e \in tb.index_entries :
    /\ e.key = indexKey
    /\ excludePrimaryKey # NoKey => e.primary_key # encodeKey(excludePrimaryKey)

deleteIndexEntriesForRecord(tb, primaryKey) ==
  [tb EXCEPT !.index_entries = {e \in @ : e.primary_key # primaryKey}]

\* INSERT OR REPLACE INTO index_entries
addIndexEntry(tb, key, primaryKey) ==
  [tb EXCEPT !.index_entries = @ \cup {[key |-> key, primary_key |-> primaryKey]}]

updateCurrentKey(tb, currentKey) == [tb EXCEPT !.current_key = currentKey]

\* ---- IDBObjectStore: the storage operations of its requests ----
MAX_KEY_GENERATOR_VALUE == 3     \* 2^53 in the source; scaled to the key space

\* _nextKey: NoKey stands for null (generator exhausted)
_nextKey(tb) ==
  IF tb.current_key >= MAX_KEY_GENERATOR_VALUE THEN NoKey
  ELSE Integer(tb.current_key + 1)

\* _maybeUpdateKeyGenerator without the comparison with the current value
_maybeUpdateKeyGeneratorUncompared(tb, key) ==
  IF Floor(key) < 1 THEN tb
  ELSE updateCurrentKey(tb, IF Floor(key) < MAX_KEY_GENERATOR_VALUE
                            THEN Floor(key) ELSE MAX_KEY_GENERATOR_VALUE)

\* _maybeUpdateKeyGenerator that leaves the generator alone
_maybeUpdateKeyGeneratorSkipped(tb, key) == tb

_maybeUpdateKeyGenerator(tb, key) ==
  IF Floor(key) < 1 THEN tb
  ELSE IF Floor(key) >= tb.current_key
  THEN updateCurrentKey(tb, IF Floor(key) < MAX_KEY_GENERATOR_VALUE
                            THEN Floor(key) ELSE MAX_KEY_GENERATOR_VALUE)
  ELSE tb

\* one entry per distinct element of an array under a multiEntry index, one
\* entry for the whole key otherwise
_addIndexEntries(tb, value, encodedKey) ==
  IF ~hasIndexKey(value) THEN tb
  ELSE IF tb.multiEntry /\ value.items # <<>>
  THEN [tb EXCEPT !.index_entries =
          @ \cup {[key |-> encodeKey(value.items[i]), primary_key |-> encodedKey] :
                    i \in DOMAIN value.items}]
  ELSE addIndexEntry(tb, extractKeyFromValue(value), encodedKey)

\* the answer of a storage operation: the table after it and what the request holds
Done(tb, outcome) == [table |-> tb, outcome |-> outcome]

uniqueViolation(tb, value, effectiveKey, noOverwrite) ==
  /\ tb.unique
  /\ hasIndexKey(value)
  /\ checkUniqueIndexConstraint(tb, extractKeyFromValue(value),
                                IF noOverwrite THEN NoKey ELSE effectiveKey)

keyExists(tb, effectiveKey, noOverwrite) ==
  noOverwrite /\ getRecord(tb, encodeKey(effectiveKey)) # Undefined

\* _addOrPut's operation, once the effective key is known
storeRecord(tb, effectiveKey, value, noOverwrite) ==
  IF uniqueViolation(tb, value, effectiveKey, noOverwrite)
  THEN Done(tb, Throws("ConstraintError"))
  ELSE IF keyExists(tb, effectiveKey, noOverwrite)
  THEN Done(tb, Throws("ConstraintError"))
  ELSE LET encodedKey == encodeKey(effectiveKey)
           t1 == IF noOverwrite THEN tb ELSE deleteIndexEntriesForRecord(tb, encodedKey)
           t2 == putRecord(t1, encodedKey, value)
           t3 == _addIndexEntries(t2, value, encodedKey)
           t4 == _maybeUpdateKeyGenerator(t3, effectiveKey)
       IN  Done(t4, Returns(effectiveKey))

\* _addOrPut's operation on an auto-increment store with out-of-line keys;
\* key = NoKey asks for a generated key
addOrPut(tb, key, value, noOverwrite) ==
  IF key = NoKey
  THEN IF _nextKey(tb) = NoKey
       THEN Done(tb, Throws("ConstraintError"))
       ELSE storeRecord(tb, _nextKey(tb), value, noOverwrite)
  ELSE storeRecord(tb, key, value, noOverwrite)

\* delete(key)'s operation
deleteOperation(tb, key) ==
  Done(deleteRecord(deleteIndexEntriesForRecord(tb, encodeKey(key)), encodeKey(key)),
       Returns(NoKey))

\* delete(IDBKeyRange.bound(lower, upper))'s operation
deleteRangeOperation(tb, lower, upper) ==
  Done(deleteRecordsInRange(tb, encodeKey(lower), encodeKey(upper)), Returns(NoKey))

\* clear()'s operation
clearOperation(tb) == Done(clearRecords(tb), Returns(NoKey))

\* get(key)'s operation
getOperation(tb, key) == Done(tb, Returns(getRecord(tb, encodeKey(key))))

\* count()'s operation
countOperation(tb) == Done(tb, Returns(Integer(countRecords(tb))))

\* ---- IDBCursor on the store or on its index ----
Directions == {"next", "prev", "nextunique", "prevunique"}
Sources == {"objectStore", "index"}

\* no position yet (_position === null); encoded keys are never negative
NoPosition == 0 - 1

NoCursor ==
  [source |-> "none", direction |-> "next", position |-> NoPosition,
   objectStorePosition |-> NoPosition, gotValue |-> FALSE,
   visited |-> <<>>]          \* ghost: the entries the cursor has stood on

isReverse(direction) == direction \in {"prev", "prevunique"}
isUnique(direction) == direction \in {"nextunique", "prevunique"}

\* rows of records as cursor entries: the key is the primary key
getRecordsForCursor(tb) ==
  {[key |-> row.key, primary_key |-> row.key] : row \in tb.records}

\* index_entries joined with records
getIndexEntriesForCursor(tb) ==
  {e \in tb.index_entries : \E row \in tb.records : row.key = e.primary_key}

EntriesOf(tb, source) ==
  IF source = "index" THEN getIndexEntriesForCursor(tb) ELSE getRecordsForCursor(tb)

\* ORDER BY of getRecordsForCursor and getIndexEntriesForCursor
OrderedBefore(direction, a, b) ==
  CASE direction = "prev" ->
         a.key > b.key \/ (a.key = b.key /\ a.primary_key > b.primary_key)
    [] direction = "prevunique" ->
         a.key > b.key \/ (a.key = b.key /\ a.primary_key < b.primary_key)
    [] OTHER ->
         a.key < b.key \/ (a.key = b.key /\ a.primary_key < b.primary_key)

\* the first row of the result that the loop does not skip; {} if none
FirstFound(entries, direction) ==
  {a \in entries : \A b \in entries \ {a} : OrderedBefore(direction, a, b)}

\* _iterateObjectStoreCursor: rows at or before the position are skipped
storeSkips(c, e) ==
  /\ c.position # NoPosition
  /\ IF isReverse(c.direction) THEN e.key >= c.position ELSE e.key <= c.position

\* _iterateIndexCursor: entries at or before the position are skipped
indexSkips(c, e) ==
  /\ c.position # NoPosition
  /\ IF isUnique(c.direction)
     THEN \/ e.key = c.position
          \/ IF isReverse(c.direction) THEN e.key > c.position ELSE e.key < c.position
     ELSE IF isReverse(c.direction)
     THEN \/ e.key > c.position
          \/ e.key = c.position /\ e.primary_key >= c.objectStorePosition
     ELSE \/ e.key < c.position
          \/ e.key = c.position /\ e.primary_key <= c.objectStorePosition

\* the cursor placed on what was found, or left without a value
placeCursor(c, found) ==
  IF found = {} THEN [c EXCEPT !.gotValue = FALSE]
  ELSE LET e == CHOOSE x \in found : TRUE
       IN  [c EXCEPT !.position = e.key, !.objectStorePosition = e.primary_key,
                     !.gotValue = TRUE, !.visited = Append(@, e)]

\* openCursor / openIndexCursor with no range: the operation
openCursor(tb, source, direction) ==
  placeCursor([NoCursor EXCEPT !.source = source, !.direction = direction],
              FirstFound(EntriesOf(tb, source), direction))

\* continue() with no key: _iterateObjectStoreCursor / _iterateIndexCursor
_iterateCursor(tb, c) ==
  LET rest == {e \in EntriesOf(tb, c.source) :
                 IF c.source = "index" THEN ~indexSkips(c, e) ELSE ~storeSkips(c, e)}
  IN  placeCursor(c, FirstFound(rest, c.direction))

\* ---- schema changes of an upgrade transaction ----
NewStores == {"s3"}
IndexNames == {"i"}

IndexesOf(sc, n) == {x \in sc.indexes : x[1] = n}

\* IDBDatabase.createObjectStore, after its checks
createObjectStore(w, t, n) ==
  LET w1 == _ensureSavepoint(w, t)
      names == w1.schema.stores \cup {n}
  IN  [w1 EXCEPT !.schema.stores = names, !.txns[t].storeNames = names]

\* IDBDatabase.deleteObjectStore, after its checks: the store goes with its
\* indexes and its records
deleteObjectStore(w, t, n) ==
  LET w1 == _ensureSavepoint(w, t)
      names == w1.schema.stores \ {n}
  IN  [w1 EXCEPT !.schema = [stores |-> names,
                             indexes |-> @.indexes \ IndexesOf(@, n)],
                 !.records = [s \in DOMAIN @ |->
                                IF s = n /\ @[s].present THEN Deleted(t) ELSE @[s]],
                 !.txns[t].storeNames = names]

\* IDBObjectStore.createIndex, after its checks (a non-unique index)
createIndex(w, t, n, i) ==
  [_ensureSavepoint(w, t) EXCEPT !.schema.indexes = @ \cup {<<n, i>>}]

\* IDBObjectStore.deleteIndex, after its checks
deleteIndex(w, t, n, i) ==
  [_ensureSavepoint(w, t) EXCEPT !.schema.indexes = @ \ {<<n, i>>}]

\* ---- user code: calls made by the script or by a listener ----
InUserCode == ctx.kind # "idle"

\* IDBDatabase.transaction(storeNames, mode)
Transaction(c, scope, mode) ==
  /\ InUserCode
  /\ conns[c].status \in {"open", "upgrading", "aborted"}
  /\ IF conns[c].upgradeTxn = 0 THEN TRUE
     ELSE txns[conns[c].upgradeTxn].state = "finished"
  /\ scope \subseteq schema.stores
  /\ LET t == Len(txns) + 1
         w1 == [World EXCEPT !.txns = Append(@, NewTransaction(c, scope, mode, TRUE))]
         w2 == addTransaction(w1, t)
     IN  Install([w2 EXCEPT !.micro = queueMicrotask(@, Micro("deact1", t))])
  /\ UNCHANGED ctx

\* common part of every request-creating call: _ensureValid, the read-only
\* check, _createRequest, _queueOperation
Request(t, kind, s) ==
  /\ InUserCode
  /\ txns[t].state = "active"
  /\ s \in txns[t].storeNames
  /\ kind \in WriteKinds => txns[t].mode # "readonly"
  /\ LET r == Len(reqs) + 1
     IN  Install(_queueOperation(_createRequest(World, t, kind, s), t, r))
  /\ UNCHANGED ctx

Put(t, s) == Request(t, "put", s)
Add(t, s) == Request(t, "add", s)
Delete(t, s) == Request(t, "delete", s)
Get(t, s) == Request(t, "get", s)
IndexGet(t, s) == Request(t, "indexGet", s)

\* the upgrade transaction of connection c is running and active
UpgradeActive(c) ==
  /\ conns[c].upgradeTxn # 0
  /\ txns[conns[c].upgradeTxn].state = "active"

\* IDBDatabase.createObjectStore(name)
CreateObjectStore(c, n) ==
  /\ InUserCode
  /\ UpgradeActive(c)
  /\ n \notin schema.stores
  /\ Install(createObjectStore(World, conns[c].upgradeTxn, n))
  /\ UNCHANGED ctx

\* IDBDatabase.deleteObjectStore(name)
DeleteObjectStore(c, n) ==
  /\ InUserCode
  /\ UpgradeActive(c)
  /\ n \in schema.stores
  /\ Install(deleteObjectStore(World, conns[c].upgradeTxn, n))
  /\ UNCHANGED ctx

\* store.createIndex(name, keyPath) on a store handle of transaction t
CreateIndex(t, n, i) ==
  /\ InUserCode
  /\ txns[t].mode = "versionchange"
  /\ txns[t].state = "active"
  /\ n \in txns[t].storeNames
  /\ <<n, i>> \notin schema.indexes
  /\ Install(createIndex(World, t, n, i))
  /\ UNCHANGED ctx

\* store.deleteIndex(name) on a store handle of transaction t
DeleteIndex(t, n, i) ==
  /\ InUserCode
  /\ txns[t].mode = "versionchange"
  /\ txns[t].state = "active"
  /\ n \in txns[t].storeNames
  /\ Install(deleteIndex(World, t, n, i))
  /\ UNCHANGED ctx

\* a data operation called by user code on a store of transaction t
Call(t, kind, s) ==
  /\ InUserCode
  /\ s \in txns[t].storeNames
  /\ Install(storeRequest(World, t, kind, s))
  /\ UNCHANGED ctx

\* cursor.continue() or cursor.advance(1) on the cursor that request r gave
CursorCall(r, call) ==
  /\ InUserCode
  /\ reqs[r].kind = "openCursor"
  /\ reqs[r].readyState = "done"
  /\ Install(cursorContinue(World, r, call))
  /\ UNCHANGED ctx

\* a request on the store whose operation has run: the table is what the
\* operation left, and the request holds its outcome
StoreRequest(call, key, value, done) ==
  /\ Install([World EXCEPT !.table = done.table,
                           !.seen = DataSeen(call, key, value, done.outcome)])
  /\ UNCHANGED ctx

\* store.add(value, key) and store.put(value, key), key = NoKey for none
StoreAdd(key, value) == StoreRequest("add", key, value, addOrPut(table, key, value, TRUE))
StorePut(key, value) == StoreRequest("put", key, value, addOrPut(table, key, value, FALSE))

\* store.delete(key), store.get(key), store.count()
StoreDelete(key) == StoreRequest("delete", key, Undefined, deleteOperation(table, key))
StoreGet(key) == StoreRequest("get", key, Undefined, getOperation(table, key))
StoreCount == StoreRequest("count", NoKey, Undefined, countOperation(table))

\* store.delete(IDBKeyRange.bound(lower, upper)) and store.clear()
StoreDeleteRange(lower, upper) ==
  StoreRequest("deleteRange", lower, Undefined, deleteRangeOperation(table, lower, upper))
StoreClear == StoreRequest("clear", NoKey, Undefined, clearOperation(table))

\* _populateIndex over the rows in the order the SELECT gives them: the
\* elements of an array under a multiEntry index go in unchecked, any other
\* key is checked when the index is unique
RECURSIVE _populateIndex(_, _)
_populateIndex(tb, rows) ==
  IF rows = <<>> THEN Done(tb, Returns(NoKey))
  ELSE LET row == Head(rows)
       IN  IF ~hasIndexKey(row.value) THEN _populateIndex(tb, Tail(rows))
           ELSE IF tb.multiEntry /\ row.value.items # <<>>
           THEN _populateIndex(_addIndexEntries(tb, row.value, row.key), Tail(rows))
           ELSE IF tb.unique
                   /\ checkUniqueIndexConstraint(tb, extractKeyFromValue(row.value), NoKey)
           THEN Done(tb, Throws("ConstraintError"))
           ELSE _populateIndex(addIndexEntry(tb, extractKeyFromValue(row.value), row.key),
                               Tail(rows))

\* the orders in which a SELECT without ORDER BY may give the records
RowOrders(tb) ==
  {rows \in [1 .. Cardinality(tb.records) -> tb.records] :
     \A i, j \in DOMAIN rows : i # j => rows[i] # rows[j]}

\* an upgrade that replaces the index: deleteIndex, then createIndex with its
\* back-population; a ConstraintError aborts the upgrade and its savepoint is
\* rolled back
createIndexOperation(tb, rows, unique, multiEntry) ==
  LET populated == _populateIndex([tb EXCEPT !.index_entries = {}, !.unique = unique,
                                             !.multiEntry = multiEntry], rows)
  IN  IF populated.outcome.threw # "none" THEN Done(tb, populated.outcome) ELSE populated

StoreCreateIndex(rows, unique, multiEntry) ==
  StoreRequest("createIndex", NoKey, Undefined,
               createIndexOperation(table, rows, unique, multiEntry))

\* store.openCursor(undefined, direction) / index.openCursor(undefined, direction)
OpenCursor(source, direction) ==
  /\ Install([World EXCEPT !.cursor = openCursor(table, source, direction)])
  /\ UNCHANGED ctx

\* cursor.continue() in the success listener of the cursor's request
ContinueCursor ==
  /\ cursor.gotValue
  /\ Install([World EXCEPT !.cursor = _iterateCursor(table, cursor)])
  /\ UNCHANGED ctx

\* user code reads request.result
ReadResult(r) ==
  /\ InUserCode
  /\ Install([World EXCEPT !.seen = Seen("result", r, reqs[r].readyState,
                                         result(World, r))])
  /\ UNCHANGED ctx

\* user code reads request.error
ReadError(r) ==
  /\ InUserCode
  /\ Install([World EXCEPT !.seen = Seen("error", r, reqs[r].readyState,
                                         error(World, r))])
  /\ UNCHANGED ctx

\* IDBTransaction.abort()
Abort(t) ==
  /\ InUserCode
  /\ ~(txns[t].state \in {"committing", "finished"} \/ txns[t].aborted)
  /\ Install(abort(World, t))
  /\ UNCHANGED ctx

\* IDBTransaction.commit()
Commit(t) ==
  /\ InUserCode
  /\ txns[t].state # "finished"
  /\ Install(commit(World, t))
  /\ UNCHANGED ctx

\* IDBFactory.open(name, version); version 0 stands for "no version given"
Open(v) ==
  /\ InUserCode
  /\ Install([World EXCEPT !.conns = Append(@, NewConnection(v)),
                           !.tasks = queueTask(@, Task("open", Len(conns) + 1, <<>>))])
  /\ UNCHANGED ctx

\* the initial script returns
EndScript ==
  /\ ctx.kind = "script"
  /\ ctx' = Idle
  /\ UNCHANGED <<txns, reqs, queue, tasks, micro, records, savepoints, conns, dbVersion,
               schema, seen, table, cursor, handles>>

\* ---- microtasks ----
MicroReady(type) == ctx.kind = "idle" /\ micro # <<>> /\ Head(micro).type = type

PopMicro == [World EXCEPT !.micro = Tail(@)]

\* the scheduler's deferred onStart: txn._schedulerStart()
StartMicrotask ==
  /\ MicroReady("start")
  /\ Install(_schedulerStart(PopMicro, Head(micro).txn))
  /\ UNCHANGED ctx

\* IDBDatabase.transaction: queueMicrotask(() => queueMicrotask(...)), outer
DeactivateOuterMicrotask ==
  /\ MicroReady("deact1")
  /\ Install([PopMicro EXCEPT !.micro = queueMicrotask(@, Micro("deact2", Head(micro).txn))])
  /\ UNCHANGED ctx

\* ... inner: deactivate the new transaction and try to auto-commit
DeactivateInnerMicrotask ==
  /\ MicroReady("deact2")
  /\ LET t == Head(micro).txn
     IN  Install(IF txns[t].state = "active"
                 THEN _maybeAutoCommit(_deactivate(PopMicro, t), t)
                 ELSE PopMicro)
  /\ UNCHANGED ctx

\* _dispatchRequestEvent: queueMicrotask(() => queueMicrotask(...)), outer
PostDispatchOuterMicrotask ==
  /\ MicroReady("post1")
  /\ Install([PopMicro EXCEPT !.micro = queueMicrotask(@, Micro("post2", Head(micro).txn))])
  /\ UNCHANGED ctx

\* ... inner: _deactivate(); _requestFinished()
PostDispatchInnerMicrotask ==
  /\ MicroReady("post2")
  /\ LET t == Head(micro).txn
     IN  Install(_requestFinished(_deactivate(PopMicro, t), t))
  /\ UNCHANGED ctx

\* _runOpenSteps: the microtask queued after upgradeneeded
UpgradeDeactivateMicrotask ==
  /\ MicroReady("vcDeact")
  /\ LET t == Head(micro).txn
     IN  Install(IF txns[t].state = "active" /\ ~txns[t].aborted
                 THEN _maybeAutoCommit(_deactivate(PopMicro, t), t)
                 ELSE PopMicro)
  /\ UNCHANGED ctx

\* ---- tasks ----
TaskReady(type) ==
  ctx.kind = "idle" /\ micro = <<>> /\ tasks # <<>> /\ Head(tasks).type = type

PopTask == [World EXCEPT !.tasks = Tail(@)]

EventType(w, r) == IF w.reqs[r].constraintError THEN "error" ELSE "success"

\* _dispatchRequestEvent, lines up to request.dispatchEvent(event)
dispatchRequestEventBegin(w, r) ==
  LET t == w.reqs[r].txn
  IN  IF w.txns[t].aborted \/ w.txns[t].state = "finished"
      THEN [w |-> _requestFinished(w, t), ctx |-> Idle]
      ELSE [w |-> [w EXCEPT !.txns[t].state = "active",
                            !.reqs[r].delivered = EventType(w, r)],
            ctx |-> Ctx("reqEvent", t, r, <<>>)]

\* IDBIndex.get's event callback, up to request.dispatchEvent(event)
indexEventBegin(w, r) ==
  LET t == w.reqs[r].txn
  IN  [w |-> [w EXCEPT !.txns[t].state = "active",
                       !.reqs[r].delivered = "success"],
       ctx |-> Ctx("idxEvent", t, r, <<>>)]

\* the event callback of a request runs as a task
EventTask ==
  /\ TaskReady("event")
  /\ LET r == Head(tasks).id
         res == IF reqs[r].kind = "indexGet"
                THEN indexEventBegin(PopTask, r)
                ELSE dispatchRequestEventBegin(PopTask, r)
     IN  Install(res.w) /\ ctx' = res.ctx

\* _dispatchRequestEvent, after request.dispatchEvent(event) returned
dispatchRequestEventEnd(w, t, r, threw, prevented) ==
  LET live == ~w.txns[t].aborted /\ w.txns[t].state # "finished"
  IN  IF threw
      THEN IF live THEN abort([w EXCEPT !.txns[t].error = AbortError], t) ELSE w
      ELSE IF w.reqs[r].delivered = "error" /\ ~prevented /\ live
      THEN abort([w EXCEPT !.txns[t].error = w.reqs[r].error], t)
      ELSE [w EXCEPT !.micro = queueMicrotask(@, Micro("post1", t))]

Ghost(w, t, r, threw, prevented) ==
  [w EXCEPT !.reqs[r].threw = threw,
            !.reqs[r].prevented = prevented]

\* the listeners of a success/error event return (or throw)
EndRequestEvent(threw, prevented) ==
  /\ ctx.kind = "reqEvent"
  /\ prevented => reqs[ctx.req].delivered = "error"       \* cancelable
  /\ Install(dispatchRequestEventEnd(Ghost(World, ctx.txn, ctx.req, threw, prevented),
                                     ctx.txn, ctx.req, threw, prevented))
  /\ ctx' = Idle

\* IDBIndex.get's event callback, after request.dispatchEvent(event)
indexEventEnd(w, t) == _requestFinished(_deactivate(w, t), t)

EndIndexEvent(threw) ==
  /\ ctx.kind = "idxEvent"
  /\ Install(indexEventEnd(Ghost(World, ctx.txn, ctx.req, threw, FALSE), ctx.txn))
  /\ ctx' = Idle

\* the task queued by abort(): error events on the requests that were
\* pending, then state = finished and the abort event
abortTaskStep(w, t, rest) ==
  IF rest # <<>>
  THEN [w |-> [w EXCEPT !.reqs[Head(rest)].delivered = "abortError"],
        ctx |-> Ctx("abortReqError", t, Head(rest), Tail(rest))]
  ELSE [w |-> [w EXCEPT !.txns[t].state = "finished",
                        !.txns[t].abortFired = @ + 1],
        ctx |-> Ctx("abortEvent", t, 0, <<>>)]

AbortTask ==
  /\ TaskReady("abort")
  /\ LET res == abortTaskStep(PopTask, Head(tasks).id, Head(tasks).reqs)
     IN  Install(res.w) /\ ctx' = res.ctx

EndAbortRequestError ==
  /\ ctx.kind = "abortReqError"
  /\ LET res == abortTaskStep(World, ctx.txn, ctx.rest)
     IN  Install(res.w) /\ ctx' = res.ctx

\* abort task, after the abort event: notify scheduler and database
abortTaskEnd(w, t) ==
  LET w1 == IF w.txns[t].useScheduler THEN transactionFinished(w, t) ELSE w
  IN  IF w.txns[t].mode = "versionchange"
      THEN [w1 EXCEPT !.tasks = queueTask(@, Task("vcAborted", t, <<>>))]
      ELSE w1

EndAbortEvent ==
  /\ ctx.kind = "abortEvent"
  /\ Install(abortTaskEnd(World, ctx.txn))
  /\ ctx' = Idle

\* the task queued by _commitWhenDone: the complete event
CompleteTask ==
  /\ TaskReady("complete")
  /\ LET t == Head(tasks).id
     IN  /\ Install([PopTask EXCEPT !.txns[t].completeFired = @ + 1])
         /\ ctx' = Ctx("completeEvent", t, 0, <<>>)

\* complete task, after the complete event: notify scheduler and database
completeTaskEnd(w, t) ==
  LET w1 == IF w.txns[t].useScheduler THEN transactionFinished(w, t) ELSE w
  IN  IF w.txns[t].mode = "versionchange"
      THEN _versionChangeTransactionFinished(w1, t, FALSE)
      ELSE w1

\* the open request gets success/error when the upgrade callback is set
OpenEventAfter(t) ==
  IF txns[t].mode = "versionchange" /\ conns[txns[t].conn].upgradeTxn = t
  THEN Ctx("openEvent", t, 0, <<>>)
  ELSE Idle

EndCompleteEvent ==
  /\ ctx.kind = "completeEvent"
  /\ Install(completeTaskEnd(World, ctx.txn))
  /\ ctx' = OpenEventAfter(ctx.txn)

\* the task queued by the abort task of a version-change transaction
UpgradeAbortedTask ==
  /\ TaskReady("vcAborted")
  /\ LET t == Head(tasks).id
     IN  /\ Install(_versionChangeTransactionFinished(PopTask, t, TRUE))
         /\ ctx' = OpenEventAfter(t)

\* _runOpenSteps that does not compare the requested version with the stored one
_runOpenStepsAnyVersion(w, c) ==
  LET existingVersion == w.dbVersion
      requestedVersion == IF w.conns[c].version = 0 THEN existingVersion
                          ELSE w.conns[c].version
      t == Len(w.txns) + 1
  IN  IF requestedVersion > existingVersion
      THEN [w |-> [w EXCEPT
                     !.txns = Append(@, NewTransaction(c, w.schema.stores,
                                                       "versionchange", FALSE)),
                     !.conns[c] = [status |-> "upgrading",
                                   version |-> requestedVersion,
                                   upgradeTxn |-> t,
                                   before |-> [schema |-> w.schema,
                                               version |-> existingVersion]]],
            ctx |-> Ctx("upgradeneeded", t, 0, <<>>)]
      ELSE [w |-> [w EXCEPT !.conns[c].status = "open",
                            !.conns[c].version = requestedVersion],
            ctx |-> Ctx("openEvent", 0, 0, <<>>)]

\* IDBFactory._runOpenSteps, up to the event it dispatches
_runOpenSteps(w, c) ==
  LET existingVersion == w.dbVersion
      requestedVersion == IF w.conns[c].version = 0 THEN existingVersion
                          ELSE w.conns[c].version
      t == Len(w.txns) + 1
  IN  IF requestedVersion < existingVersion
      THEN [w |-> [w EXCEPT !.conns[c].status = "versionError"],
            ctx |-> Ctx("openEvent", 0, 0, <<>>)]
      ELSE IF requestedVersion > existingVersion
      THEN [w |-> [w EXCEPT
                     !.txns = Append(@, NewTransaction(c, w.schema.stores,
                                                       "versionchange", FALSE)),
                     !.conns[c] = [status |-> "upgrading",
                                   version |-> requestedVersion,
                                   upgradeTxn |-> t,
                                   before |-> [schema |-> w.schema,
                                               version |-> existingVersion]]],
            ctx |-> Ctx("upgradeneeded", t, 0, <<>>)]
      ELSE [w |-> [w EXCEPT !.conns[c].status = "open",
                            !.conns[c].version = requestedVersion],
            ctx |-> Ctx("openEvent", 0, 0, <<>>)]

OpenTask ==
  /\ TaskReady("open")
  /\ LET res == _runOpenSteps(PopTask, Head(tasks).id)
     IN  Install(res.w) /\ ctx' = res.ctx

\* the upgradeneeded listeners return: queue the deactivation microtask
EndUpgradeNeeded ==
  /\ ctx.kind = "upgradeneeded"
  /\ Install([World EXCEPT !.micro = queueMicrotask(@, Micro("vcDeact", ctx.txn))])
  /\ ctx' = Idle

\* the listeners of the open request's success/error event return
EndOpenEvent ==
  /\ ctx.kind = "openEvent"
  /\ ctx' = Idle
  /\ UNCHANGED <<txns, reqs, queue, tasks, micro, records, savepoints, conns, dbVersion,
               schema, seen, table, cursor, handles>>

\* ---- the handles of a version-change transaction and their revert ----
HandleStores == {"a", "b"}        \* object store names an upgrade may use
HandleIndexes == {"i", "j"}       \* index names it may use
KeyPaths == {"dup", "uni"}        \* key paths of an index; the two records of
                                  \* store "a" agree on "dup" and differ on "uni"
MaxStoreHandles == 3
MaxIndexHandles == 2

\* object_stores and indexes of the database: store names, and
\* <<store name, index name>> for the index rows (joined on object_store_id)
Database(stores, indexes) == [stores |-> stores, indexes |-> indexes]

\* new IDBObjectStore(transaction, name); created and before are ghosts: made
\* by createObjectStore in this transaction, and the name before it
StoreHandle(name, created) ==
  [name |-> name, deleted |-> FALSE, indexCache |-> [i \in HandleIndexes |-> 0],
   created |-> created, before |-> name]

\* new IDBIndex(store, name, ...); created is _createdInTransaction === txn
IndexHandle(store, name, created) ==
  [store |-> store, name |-> name, deleted |-> FALSE, created |-> created]

NoCache == [n \in HandleStores |-> 0]

\* the upgrade transaction at upgradeneeded: one store "a" with one index "i"
\* in the database, no handle made yet
NewUpgrade ==
  [db |-> Database({"a"}, {<<"a", "i">>}),
   before |-> Database({"a"}, {<<"a", "i">>}),     \* what ROLLBACK TO brings back
   state |-> "active",
   storeNames |-> {"a"},                           \* _storeNames
   stores |-> <<>>, indexes |-> <<>>,              \* every handle ever made
   objectStoreCache |-> NoCache, deletedStoreCache |-> NoCache,
   createdStoreNames |-> <<>>, deletedStoreNames |-> <<>>,
   renamedStores |-> <<>>, createdIndexes |-> <<>>, deletedIndexes |-> <<>>,
   constraintViolated |-> FALSE]     \* ghost: a createIndex found a duplicate

\* idx._deleted = value for every index in the store's _indexCache
MarkIndexes(h, s, value) ==
  [h EXCEPT !.indexes = [x \in DOMAIN @ |->
       IF \E n \in HandleIndexes : h.stores[s].indexCache[n] = x
       THEN [@[x] EXCEPT !.deleted = value] ELSE @[x]]]

\* IDBTransaction.objectStore(name) when no handle is cached
objectStore(h, n) ==
  [h EXCEPT !.stores = Append(@, StoreHandle(n, FALSE)),
            !.objectStoreCache[n] = Len(h.stores) + 1]

\* IDBDatabase.createObjectStore: the handle and what the transaction records
createStoreHandle(h, n) ==
  [h EXCEPT !.db.stores = @ \cup {n},
            !.storeNames = h.db.stores \cup {n},
            !.stores = Append(@, StoreHandle(n, TRUE)),
            !.objectStoreCache[n] = Len(h.stores) + 1,
            !.createdStoreNames = Append(@, n)]

\* IDBDatabase.deleteObjectStore
deleteStoreHandle(h, n) ==
  LET cachedStore == h.objectStoreCache[n]
      h1 == IF cachedStore # 0
            THEN [MarkIndexes(h, cachedStore, TRUE)
                    EXCEPT !.stores[cachedStore].deleted = TRUE]
            ELSE h
      wasCreatedInThisTxn == InSeq(n, h.createdStoreNames)
      h2 == IF wasCreatedInThisTxn THEN h1
            ELSE [h1 EXCEPT !.deletedStoreNames = Append(@, n),
                            !.deletedStoreCache[n] =
                               IF cachedStore # 0 THEN cachedStore ELSE @]
  IN  [h2 EXCEPT !.db = Database(@.stores \ {n}, {x \in @.indexes : x[1] # n}),
                 !.storeNames = h.db.stores \ {n},
                 !.objectStoreCache[n] = 0]

\* IDBObjectStore: set name(newName), after its checks
setName(h, s, newName) ==
  LET oldName == h.stores[s].name
  IN  [h EXCEPT
         !.db = Database((@.stores \ {oldName}) \cup {newName},
                         {IF x[1] = oldName THEN <<newName, x[2]>> ELSE x
                            : x \in @.indexes}),
         !.stores[s].name = newName,
         !.objectStoreCache = [@ EXCEPT ![oldName] = 0, ![newName] = s],
         !.storeNames = IF oldName \in @ THEN (@ \ {oldName}) \cup {newName} ELSE @,
         !.renamedStores = Append(@, [store |-> s, oldName |-> oldName,
                                      newName |-> newName])]

\* IDBObjectStore.index(name) when no usable handle is cached
index(h, s, n) ==
  [h EXCEPT !.indexes = Append(@, IndexHandle(s, n, FALSE)),
            !.stores[s].indexCache[n] = Len(h.indexes) + 1]

\* IDBObjectStore.deleteIndex
deleteIndexHandle(h, s, n) ==
  LET cached == h.stores[s].indexCache[n]
      h1 == [h EXCEPT !.db.indexes = @ \ {<<h.stores[s].name, n>>}]
  IN  IF cached # 0
      THEN [h1 EXCEPT
              !.indexes[cached].deleted = TRUE,
              !.deletedIndexes =
                 IF h.indexes[cached].created THEN @
                 ELSE Append(@, [store |-> s, index |-> cached, name |-> n]),
              !.stores[s].indexCache[n] = 0]
      ELSE h1     \* getIndexMetadata finds nothing: the row is already deleted

\* _revertMetadata: the store objects it takes as created in this transaction
createdStoreObjects(h) ==
  {s \in 1..Len(h.stores) :
     \E n \in HandleStores : h.objectStoreCache[n] = s
                             /\ InSeq(h.stores[s].name, h.createdStoreNames)}
  \cup {h.renamedStores[i].store : i \in {j \in 1..Len(h.renamedStores) :
                        InSeq(h.renamedStores[j].oldName, h.createdStoreNames)}}

\* _revertMetadata: renamed stores, newest first
RECURSIVE revertRenamedStores(_, _, _)
revertRenamedStores(h, created, i) ==
  IF i = 0 THEN h
  ELSE LET r == h.renamedStores[i]
       IN  IF r.store \in created THEN revertRenamedStores(h, created, i - 1)
           ELSE revertRenamedStores(
                  [h EXCEPT !.stores[r.store].name = r.oldName,
                            !.objectStoreCache =
                               [@ EXCEPT ![r.newName] = 0, ![r.oldName] = r.store]],
                  created, i - 1)

\* _revertMetadata: created stores become deleted, with their cached indexes
RECURSIVE revertCreatedStores(_, _)
revertCreatedStores(h, i) ==
  IF i > Len(h.createdStoreNames) THEN h
  ELSE LET store == h.objectStoreCache[h.createdStoreNames[i]]
       IN  revertCreatedStores(
             IF store # 0
             THEN [MarkIndexes(h, store, TRUE) EXCEPT !.stores[store].deleted = TRUE]
             ELSE h,
             i + 1)

\* _revertMetadata: deleted stores are un-deleted; their cached indexes too
\* if the rolled-back database has a store of that name
RECURSIVE revertDeletedStores(_, _)
revertDeletedStores(h, i) ==
  IF i > Len(h.deletedStoreNames) THEN h
  ELSE LET name == h.deletedStoreNames[i]
           store == IF h.deletedStoreCache[name] # 0 THEN h.deletedStoreCache[name]
                    ELSE h.objectStoreCache[name]
           h1 == IF store = 0 THEN h
                 ELSE IF name \in h.db.stores
                 THEN [MarkIndexes(h, store, FALSE) EXCEPT !.stores[store].deleted = FALSE]
                 ELSE [h EXCEPT !.stores[store].deleted = FALSE]
       IN  revertDeletedStores(h1, i + 1)

\* _revertMetadata: created indexes become deleted
revertCreatedIndexes(h) ==
  [h EXCEPT !.indexes = [x \in DOMAIN @ |->
       IF InSeq(x, h.createdIndexes) THEN [@[x] EXCEPT !.deleted = TRUE] ELSE @[x]]]

\* _revertMetadata: deleted indexes are un-deleted unless their store is deleted
RECURSIVE revertDeletedIndexes(_, _)
revertDeletedIndexes(h, i) ==
  IF i > Len(h.deletedIndexes) THEN h
  ELSE LET d == h.deletedIndexes[i]
       IN  revertDeletedIndexes(
             IF ~h.stores[d.store].deleted
             THEN [h EXCEPT !.indexes[d.index].deleted = FALSE,
                            !.stores[d.store].indexCache[d.name] = d.index]
             ELSE h,
             i + 1)

\* _revertMetadata on the handles, in the order of the source; the database
\* has been rolled back before
revertHandles(h) ==
  LET h1 == revertRenamedStores(h, createdStoreObjects(h), Len(h.renamedStores))
      h2 == revertCreatedStores(h1, 1)
      h3 == revertDeletedStores(h2, 1)
      h4 == revertCreatedIndexes(h3)
      h5 == revertDeletedIndexes(h4, 1)
  IN  [h5 EXCEPT !.storeNames = h.db.stores]

\* abort() of the upgrade transaction: ROLLBACK TO the savepoint, then
\* _revertMetadata
abortUpgrade(h) ==
  revertHandles([h EXCEPT !.db = h.before, !.state = "aborted"])

\* _populateIndex throws ConstraintError: the index is unique and two records
\* of the store have the same value at the key path; only the store that was
\* there before the upgrade has records
_populateIndexThrows(h, s, keyPath, unique) ==
  unique /\ keyPath = "dup" /\ ~h.stores[s].created

\* IDBObjectStore.createIndex: the handle, what the transaction records, and
\* the abort when the back-population hit the unique constraint
createIndexHandle(h, s, n, keyPath, unique) ==
  LET constraintViolated == _populateIndexThrows(h, s, keyPath, unique)
      h1 == [h EXCEPT !.db.indexes = @ \cup {<<h.stores[s].name, n>>},
                      !.indexes = Append(@, IndexHandle(s, n, TRUE)),
                      !.stores[s].indexCache[n] = Len(h.indexes) + 1,
                      !.createdIndexes = Append(@, Len(h.indexes) + 1),
                      !.constraintViolated = @ \/ constraintViolated]
  IN  IF constraintViolated THEN abortUpgrade(h1) ELSE h1

\* ---- user code in the upgradeneeded listener ----
HandleLive == handles.state = "active"

\* an upgrade's calls on its handles leave the rest of the program alone
HandleFrame ==
  UNCHANGED <<txns, reqs, queue, tasks, micro, ctx, records, savepoints, conns,
              dbVersion, schema, seen, table, cursor>>

\* txn.objectStore(name)
ObjectStore(n) ==
  /\ HandleLive
  /\ n \in handles.storeNames
  /\ handles.objectStoreCache[n] = 0
  /\ Len(handles.stores) < MaxStoreHandles
  /\ handles' = objectStore(handles, n)
  /\ HandleFrame

\* db.createObjectStore(name)
CreateStoreHandle(n) ==
  /\ HandleLive
  /\ n \notin handles.db.stores
  /\ Len(handles.stores) < MaxStoreHandles
  /\ handles' = createStoreHandle(handles, n)
  /\ HandleFrame

\* db.deleteObjectStore(name)
DeleteStoreHandle(n) ==
  /\ HandleLive
  /\ n \in handles.db.stores
  /\ handles' = deleteStoreHandle(handles, n)
  /\ HandleFrame

\* store.name = newName
SetName(s, newName) ==
  /\ HandleLive
  /\ ~handles.stores[s].deleted
  /\ newName # handles.stores[s].name
  /\ newName \notin handles.db.stores
  /\ Len(handles.renamedStores) < MaxStoreHandles
  /\ handles' = setName(handles, s, newName)
  /\ HandleFrame

\* store.index(name)
Index(s, n) ==
  /\ HandleLive
  /\ ~handles.stores[s].deleted
  /\ LET cached == handles.stores[s].indexCache[n]
     IN  IF cached = 0 THEN TRUE ELSE handles.indexes[cached].deleted
  /\ <<handles.stores[s].name, n>> \in handles.db.indexes
  /\ Len(handles.indexes) < MaxIndexHandles
  /\ handles' = index(handles, s, n)
  /\ HandleFrame

\* store.createIndex(name, keyPath)
CreateIndexHandle(s, n, keyPath, unique) ==
  /\ HandleLive
  /\ ~handles.stores[s].deleted
  /\ <<handles.stores[s].name, n>> \notin handles.db.indexes
  /\ Len(handles.indexes) < MaxIndexHandles
  /\ handles' = createIndexHandle(handles, s, n, keyPath, unique)
  /\ HandleFrame

\* store.deleteIndex(name)
DeleteIndexHandle(s, n) ==
  /\ HandleLive
  /\ ~handles.stores[s].deleted
  /\ <<handles.stores[s].name, n>> \in handles.db.indexes
  /\ handles' = deleteIndexHandle(handles, s, n)
  /\ HandleFrame

\* txn.abort()
AbortUpgrade ==
  /\ HandleLive
  /\ handles' = abortUpgrade(handles)
  /\ HandleFrame

NextHandles ==
  \/ \E n \in HandleStores :
       ObjectStore(n) \/ CreateStoreHandle(n) \/ DeleteStoreHandle(n)
  \/ \E s \in 1..Len(handles.stores), n \in HandleStores : SetName(s, n)
  \/ \E s \in 1..Len(handles.stores), n \in HandleIndexes :
       \/ Index(s, n)
       \/ \E keyPath \in KeyPaths, unique \in BOOLEAN :
            CreateIndexHandle(s, n, keyPath, unique)
       \/ DeleteIndexHandle(s, n)
  \/ AbortUpgrade

\* ---- specification ----
EmptyRecord == [present |-> FALSE, writer |-> 0]

\* the state after construction, but for the store's table and for what
\* user code has seen
InitRuntime ==
  /\ txns = <<>>
  /\ reqs = <<>>
  /\ queue = <<>>
  /\ tasks = <<>>
  /\ micro = <<>>
  /\ ctx = Ctx("script", 0, 0, <<>>)
  /\ records = [s \in Stores |-> EmptyRecord]
  /\ savepoints = <<>>
  /\ conns = <<[status |-> "open", version |-> 1, upgradeTxn |-> 0,
                before |-> NoMetadata]>>
  /\ dbVersion = 1
  /\ schema = [stores |-> Stores, indexes |-> {}]
  /\ cursor = NoCursor
  /\ handles = NewUpgrade

InitObjects == InitRuntime /\ seen = NothingSeen

Init == InitObjects /\ table = EmptyTable

\* the same with the store's index created unique or not
InitIndex == InitObjects /\ table \in {[EmptyTable EXCEPT !.unique = u] : u \in BOOLEAN}

TxnIds == 1..Len(txns)
ReqIds == 1..Len(reqs)

\* room left for one more transaction / request under the given bounds
TxnRoom(maxTxn) == Len(txns) + QueuedOpens < maxTxn
ReqRoom(maxReq) == Len(reqs) < maxReq

\* every call but commit()
AutoCall ==
  \/ \E scope \in Scopes, mode \in Modes : TxnRoom(MaxTxn) /\ Transaction(1, scope, mode)
  \/ \E t \in TxnIds, s \in Stores : ReqRoom(MaxReq) /\ Put(t, s)
  \/ \E t \in TxnIds, s \in Stores : ReqRoom(MaxReq) /\ Add(t, s)
  \/ \E t \in TxnIds, s \in Stores : ReqRoom(MaxReq) /\ Delete(t, s)
  \/ \E t \in TxnIds, s \in Stores : ReqRoom(MaxReq) /\ Get(t, s)
  \/ \E t \in TxnIds, s \in Stores : ReqRoom(MaxReq) /\ IndexGet(t, s)
  \/ \E t \in TxnIds : Abort(t)

\* the calls of Spec, commit() included: each transaction is over one store, and
\* its requests are add, get and index get
OneStoreScopes == {{s} : s \in Stores}

UserCall ==
  \/ \E scope \in OneStoreScopes, mode \in Modes :
       TxnRoom(MaxTxn) /\ Transaction(1, scope, mode)
  \/ \E t \in TxnIds, s \in Stores : ReqRoom(MaxReq) /\ Add(t, s)
  \/ \E t \in TxnIds, s \in Stores : ReqRoom(MaxReq) /\ Get(t, s)
  \/ \E t \in TxnIds, s \in Stores : ReqRoom(MaxReq) /\ IndexGet(t, s)
  \/ \E t \in TxnIds : Abort(t)
  \/ \E t \in TxnIds : Commit(t)

EventLoop ==
  \/ StartMicrotask
  \/ DeactivateOuterMicrotask
  \/ DeactivateInnerMicrotask
  \/ PostDispatchOuterMicrotask
  \/ PostDispatchInnerMicrotask
  \/ EventTask
  \/ AbortTask
  \/ CompleteTask

ListenerReturn ==
  \/ EndScript
  \/ \E threw \in BOOLEAN, prevented \in BOOLEAN : EndRequestEvent(threw, prevented)
  \/ \E threw \in BOOLEAN : EndIndexEvent(threw)
  \/ EndAbortRequestError
  \/ EndAbortEvent
  \/ EndCompleteEvent

\* Transaction life cycle on one connection.
Next == UserCall \/ ListenerReturn \/ EventLoop

Spec == Init /\ [][Next]_vars

\* The same without commit(): every commit is an automatic one.
NextAuto == AutoCall \/ ListenerReturn \/ EventLoop

SpecAuto == Init /\ [][NextAuto]_vars

\* Scheduling: more transactions, fewer requests.
SchedCall ==
  \/ \E scope \in Scopes, mode \in Modes : TxnRoom(SchedMaxTxn) /\ Transaction(1, scope, mode)
  \/ \E t \in TxnIds, s \in Stores : ReqRoom(SchedMaxReq) /\ Put(t, s)
  \/ \E t \in TxnIds, s \in Stores : ReqRoom(SchedMaxReq) /\ Get(t, s)
  \/ \E t \in TxnIds : Abort(t)

SchedReturn ==
  \/ EndScript
  \/ \E threw \in BOOLEAN : EndRequestEvent(threw, FALSE)
  \/ EndAbortRequestError
  \/ EndAbortEvent
  \/ EndCompleteEvent

NextSched == SchedCall \/ SchedReturn \/ EventLoop

SpecSched == Init /\ [][NextSched]_vars

\* Opening further connections, with and without an upgrade.
OpenCall ==
  \/ \E v \in 0..MaxVersion : Len(conns) < MaxConn /\ TxnRoom(OpenMaxTxn) /\ Open(v)
  \/ \E c \in 1..Len(conns), scope \in Scopes, mode \in Modes :
        TxnRoom(OpenMaxTxn) /\ Transaction(c, scope, mode)
  \/ \E t \in TxnIds, s \in Stores : ReqRoom(OpenMaxReq) /\ Put(t, s)
  \/ \E t \in TxnIds, s \in Stores : ReqRoom(OpenMaxReq) /\ Get(t, s)
  \/ \E t \in TxnIds : Abort(t)

OpenReturn ==
  \/ EndScript
  \/ \E threw \in BOOLEAN : EndRequestEvent(threw, FALSE)
  \/ EndAbortRequestError
  \/ EndAbortEvent
  \/ EndCompleteEvent
  \/ EndUpgradeNeeded
  \/ EndOpenEvent

OpenLoop ==
  \/ EventLoop
  \/ UpgradeDeactivateMicrotask
  \/ UpgradeAbortedTask
  \/ OpenTask

NextOpen == OpenCall \/ OpenReturn \/ OpenLoop

SpecOpen == Init /\ [][NextOpen]_vars

\* Opens at any version, one after another: a later open() may ask for less
\* than an earlier upgrade has stored.
VerMaxTxn == 2       \* SpecVersion: transactions, upgrade transactions included
VerMaxReq == 1       \* SpecVersion: requests created in one behaviour
VerMaxConn == 3      \* SpecVersion: connections, the initial one included

VersionCall ==
  \/ \E v \in 0..MaxVersion : Len(conns) < VerMaxConn /\ TxnRoom(VerMaxTxn) /\ Open(v)
  \/ \E c \in 1..Len(conns), scope \in Scopes :
        TxnRoom(VerMaxTxn) /\ Transaction(c, scope, "readwrite")
  \/ \E t \in TxnIds, s \in Stores : ReqRoom(VerMaxReq) /\ Put(t, s)
  \/ \E t \in TxnIds : Abort(t)

NextVersion == VersionCall \/ OpenReturn \/ OpenLoop

SpecVersion == Init /\ [][NextVersion]_vars

\* The key functions applied to pairs of valid keys.
KeyNumbers ==
  {MinusZero, PlusZero, Num(1, 2), Num(0, 2),
   Num(1, 2^MagBits - 1), Num(0, 2^MagBits - 1)}     \* the last two: -Infinity, Infinity
KeyDates == {PlusZero, Num(1, 2), Num(0, 2)}          \* finite, and never -0
CodeUnits == {0, 1, 2, 256}
Bytes == {0, 1, 255}

SeqsUpTo(S, n) == UNION {[1..m -> S] : m \in 0..n}

ScalarKeys ==
  {NumberKey(n) : n \in KeyNumbers} \cup {DateKey(n) : n \in KeyDates}
    \cup {StringKey(u) : u \in SeqsUpTo(CodeUnits, MaxKeyLen)}
    \cup {BinaryKey(b) : b \in SeqsUpTo(Bytes, MaxKeyLen)}

\* what the arrays are made of: an array may hold arrays
ItemKeys ==
  {NumberKey(MinusZero), NumberKey(PlusZero), StringKey(<<>>), StringKey(<<1>>),
   BinaryKey(<<>>), ArrayKey(<<>>)}

ValidKeys == ScalarKeys \cup {ArrayKey(items) : items \in SeqsUpTo(ItemKeys, MaxKeyLen)}

NotCalled == 2       \* no comparison result yet (results are -1, 0, 1)

\* two keys and what the key functions gave for them
KeySeen(a, b, compared, encodedA, encodedB, decoded) ==
  [a |-> a, b |-> b, compared |-> compared, encodedA |-> encodedA,
   encodedB |-> encodedB, decoded |-> decoded]

\* indexedDB.cmp(a, b)
Cmp ==
  /\ seen.compared = NotCalled
  /\ seen' = [seen EXCEPT !.compared = cmp(seen.a, seen.b)]
  /\ UNCHANGED <<txns, reqs, queue, tasks, micro, ctx, records, savepoints, conns,
                 dbVersion, schema, table, cursor, handles>>

\* encodeKey of both keys
EncodeKey ==
  /\ seen.encodedA = <<>>
  /\ seen' = [seen EXCEPT !.encodedA = encodeKeyInto(seen.a),
                          !.encodedB = encodeKeyInto(seen.b)]
  /\ UNCHANGED <<txns, reqs, queue, tasks, micro, ctx, records, savepoints, conns,
                 dbVersion, schema, table, cursor, handles>>

\* decodeKey of the first key's encoding
DecodeKey ==
  /\ seen.encodedA # <<>>
  /\ seen.decoded = UnknownTag
  /\ seen' = [seen EXCEPT !.decoded = decodeKey(seen.encodedA)]
  /\ UNCHANGED <<txns, reqs, queue, tasks, micro, ctx, records, savepoints, conns,
                 dbVersion, schema, table, cursor, handles>>

InitKeys ==
  /\ InitRuntime
  /\ table = EmptyTable
  /\ seen \in {KeySeen(a, b, NotCalled, <<>>, <<>>, UnknownTag) : a, b \in ValidKeys}

NextKeys == Cmp \/ EncodeKey \/ DecodeKey

SpecKeys == InitKeys /\ [][NextKeys]_vars

\* The handles of one upgrade transaction, up to its abort.
SpecHandles == Init /\ [][NextHandles]_vars

\* An upgrade that changes the schema, next to the transactions of the
\* connection that is already open.
UpMaxTxn == 2        \* SpecUpgrade: transactions, the upgrade transaction included
UpMaxReq == 2        \* SpecUpgrade: requests created in one behaviour
UpMaxConn == 2       \* SpecUpgrade: connections, the initial one included

UpgradeCall ==
  \/ \E v \in 2..MaxVersion : Len(conns) < UpMaxConn /\ TxnRoom(UpMaxTxn) /\ Open(v)
  \/ \E c \in 1..Len(conns), scope \in Scopes :
        TxnRoom(UpMaxTxn) /\ Transaction(c, scope, "readwrite")
  \/ \E t \in TxnIds, s \in Stores : ReqRoom(UpMaxReq) /\ Put(t, s)
  \/ \E t \in TxnIds : Abort(t)
  \/ \E c \in 1..Len(conns), n \in NewStores : CreateObjectStore(c, n)
  \/ \E c \in 1..Len(conns), n \in Stores : DeleteObjectStore(c, n)
  \/ \E t \in TxnIds, n \in Stores, i \in IndexNames : CreateIndex(t, n, i)
  \/ \E t \in TxnIds, n \in Stores, i \in IndexNames : DeleteIndex(t, n, i)

NextUpgrade == UpgradeCall \/ OpenReturn \/ OpenLoop

SpecUpgrade == Init /\ [][NextUpgrade]_vars

\* Requests whose result and error are read by the script and by listeners.
ReadMaxTxn == 1      \* SpecRead: transactions
ReadMaxReq == 2      \* SpecRead: requests created in one behaviour

ReadCall ==
  \/ \E scope \in Scopes, mode \in Modes :
        TxnRoom(ReadMaxTxn) /\ Transaction(1, scope, mode)
  \/ \E t \in TxnIds, s \in Stores : ReqRoom(ReadMaxReq) /\ Put(t, s)
  \/ \E t \in TxnIds, s \in Stores : ReqRoom(ReadMaxReq) /\ Add(t, s)
  \/ \E t \in TxnIds, s \in Stores : ReqRoom(ReadMaxReq) /\ Get(t, s)
  \/ \E t \in TxnIds, s \in Stores : ReqRoom(ReadMaxReq) /\ IndexGet(t, s)
  \/ \E t \in TxnIds : Abort(t)
  \/ \E r \in ReqIds : ReadResult(r)
  \/ \E r \in ReqIds : ReadError(r)

NextRead == ReadCall \/ ListenerReturn \/ EventLoop

SpecRead == Init /\ [][NextRead]_vars

\* Data operations called in every state of their transaction.
CallMaxTxn == 1      \* SpecCall: transactions
CallMaxReq == 2      \* SpecCall: requests created in one behaviour
CallStores == {"s1"} \* SpecCall: the store the operations are called on

DataCall ==
  \/ \E mode \in Modes : TxnRoom(CallMaxTxn) /\ Transaction(1, CallStores, mode)
  \/ \E t \in TxnIds, kind \in DataKinds, s \in CallStores :
        /\ txns[t].state = "active" => ReqRoom(CallMaxReq)
        /\ Call(t, kind, s)
  \/ \E r \in ReqIds, call \in CursorCalls : CursorCall(r, call)
  \/ \E t \in TxnIds, s \in CallStores : ReqRoom(CallMaxReq) /\ IndexGet(t, s)
  \/ \E t \in TxnIds : Abort(t)

NextCall == DataCall \/ ListenerReturn \/ EventLoop

SpecCall == Init /\ [][NextCall]_vars

\* Requests on one store with a unique index, keys given by the caller.
DataKeys == {MinusZero, PlusZero, Integer(1)}
IndexKeys == {NoKey, MinusZero, PlusZero, Integer(1)}
Tags == {"a", "b"}
DataValues == {Value(tag, ik) : tag \in Tags, ik \in IndexKeys}

NextData ==
  \/ \E k \in DataKeys, v \in DataValues : StoreAdd(k, v)
  \/ \E k \in DataKeys, v \in DataValues : StorePut(k, v)
  \/ \E k \in DataKeys : StoreDelete(k)
  \/ \E k \in DataKeys : StoreGet(k)
  \/ StoreCount

SpecData == Init /\ [][NextData]_vars

\* Requests that write, with delete by range and clear, on a store whose
\* index is unique or not.
EntryKeys == {PlusZero, Integer(1)}
EntryValues ==
  {Value("a", ik) : ik \in {NoKey, PlusZero, Integer(1)}}
    \cup {ArrayValue("a", items) : items \in {<<PlusZero>>, <<PlusZero, Integer(1)>>}}

NextIndex ==
  \/ \E k \in EntryKeys, v \in EntryValues : StoreAdd(k, v)
  \/ \E k \in EntryKeys, v \in EntryValues : StorePut(k, v)
  \/ \E k \in EntryKeys : StoreDelete(k)
  \/ \E lower, upper \in EntryKeys : StoreDeleteRange(lower, upper)
  \/ StoreClear
  \/ \E rows \in RowOrders(table), unique, multiEntry \in BOOLEAN :
       StoreCreateIndex(rows, unique, multiEntry)

SpecIndex == InitIndex /\ [][NextIndex]_vars

\* Requests on an auto-increment store: keys generated and keys given.
GenKeys == {NoKey, MinusZero, Num(0, 3), Integer(2), Integer(MAX_KEY_GENERATOR_VALUE)}
GenValues == {Value("a", NoKey), Value("a", PlusZero)}

NextKeyGen ==
  \/ \E k \in GenKeys, v \in GenValues : StoreAdd(k, v)
  \/ \E k \in GenKeys, v \in GenValues : StorePut(k, v)
  \/ \E k \in GenKeys \ {NoKey} : StoreDelete(k)

SpecKeyGen == Init /\ [][NextKeyGen]_vars

\* Readwrite transactions on an auto-increment store, one after the other:
\* each begins its savepoint, adds and puts, and commits or aborts.
TxnKeys == {NoKey, Integer(2), Integer(MAX_KEY_GENERATOR_VALUE)}
TxnValues == {Value("a", NoKey)}

\* seen, for a call on the transaction: the generator's value when it was made
TxnSeen(call, generator) ==
  [call |-> call, key |-> NoKey, arg |-> Undefined, outcome |-> Returns(NoKey),
   generator |-> generator]

\* _ensureSavepoint of the transaction's first request
GeneratorBegin ==
  /\ savepoints = <<>>
  /\ Install([beginSavepoint(World, 1) EXCEPT !.seen = TxnSeen("begin", table.current_key)])
  /\ UNCHANGED ctx

\* _commitWhenDone: releaseSavepoint
GeneratorCommit ==
  /\ savepoints # <<>>
  /\ Install([releaseSavepoint(World, 1) EXCEPT !.seen = TxnSeen("commit", table.current_key)])
  /\ UNCHANGED ctx

\* abort(), by the script or after a request's error: rollbackSavepoint
GeneratorAbort ==
  /\ savepoints # <<>>
  /\ Install([rollbackSavepoint(World, 1) EXCEPT !.seen = TxnSeen("abort", table.current_key)])
  /\ UNCHANGED ctx

NextGenerator ==
  \/ GeneratorBegin
  \/ \E k \in TxnKeys, v \in TxnValues : savepoints # <<>> /\ StoreAdd(k, v)
  \/ \E k \in TxnKeys, v \in TxnValues : savepoints # <<>> /\ StorePut(k, v)
  \/ GeneratorCommit
  \/ GeneratorAbort

SpecGenerator == Init /\ [][NextGenerator]_vars

\* A store is filled, then a cursor walks it or its index to the end.
CursorKeys == {MinusZero, PlusZero, Integer(1)}
CursorValues == {Value("a", ik) : ik \in IndexKeys}

\* no cursor is under way
CursorIdle == ~cursor.gotValue

NextCursor ==
  \/ \E k \in CursorKeys, v \in CursorValues : CursorIdle /\ StorePut(k, v)
  \/ \E k \in CursorKeys : CursorIdle /\ StoreDelete(k)
  \/ \E source \in Sources, direction \in Directions :
        CursorIdle /\ OpenCursor(source, direction)
  \/ ContinueCursor

SpecCursor == InitIndex /\ [][NextCursor]_vars

\* ---- properties ----

\* two queue entries conflict: overlapping scopes and at least one readwrite
Conflict(a, b) ==
  /\ _scopesOverlap(a.scope, b.scope)
  /\ (a.mode = "readwrite" \/ b.mode = "readwrite")

\* started by the scheduler and not yet finished
Running(e) == e.started /\ txns[e.txn].state # "finished"

\* C1: no two transactions of the database are running at the same time (started
\* by the scheduler, not yet finished) when their scopes overlap and at least one
\* of them is readwrite.
C1_NoConflictingRunning ==
  \A i, j \in 1..Len(queue) :
    (i # j /\ Running(queue[i]) /\ Running(queue[j])) => ~Conflict(queue[i], queue[j])

\* C1 case: a transaction runs (its start function was called) while a later
\* conflicting transaction is held back in the queue.
C1_Witness ==
  \E i, j \in 1..Len(queue) :
    /\ i < j
    /\ Running(queue[i]) /\ txns[queue[i].txn].started
    /\ ~queue[j].started
    /\ Conflict(queue[i], queue[j])

\* C5: conflicting transactions are started in creation order: a transaction is
\* never started while an earlier conflicting one is still waiting in the queue.
C5_StartInCreationOrder ==
  \A i, j \in 1..Len(queue) :
    (i < j /\ Conflict(queue[i], queue[j]) /\ queue[j].started) => queue[i].started

\* C5 case: the later of two conflicting transactions has been started after the
\* earlier one was started and completed.
C5_Witness ==
  \E t1, t2 \in TxnIds :
    /\ t1 < t2
    /\ _scopesOverlap(txns[t1].storeNames, txns[t2].storeNames)
    /\ (txns[t1].mode = "readwrite" \/ txns[t2].mode = "readwrite")
    /\ txns[t1].started /\ txns[t1].completeFired = 1
    /\ txns[t2].started

\* C2: once a transaction is aborted, no record written or deleted by one of its
\* requests is what a read of the store returns.
C2_AbortedWritesInvisible ==
  \A t \in TxnIds : txns[t].aborted => \A s \in Stores : records[s].writer # t

\* a transaction that has begun its work and has not finished: scheduled
\* transactions begin when the scheduler starts them, upgrade transactions
\* when they are created
TxnRunning(t) ==
  /\ txns[t].state # "finished"
  /\ (txns[t].useScheduler => txns[t].started)

\* C3: while a versionchange transaction has not finished, no other transaction
\* of the database, on any connection, is running.
C3_VersionChangeExclusive ==
  \A t, u \in TxnIds :
    (t # u /\ txns[t].mode = "versionchange" /\ txns[t].state # "finished")
      => ~TxnRunning(u)

\* two readwrite transactions with overlapping scopes, t1 created first
ConflictRW(t1, t2) ==
  /\ t1 < t2
  /\ txns[t1].mode = "readwrite" /\ txns[t2].mode = "readwrite"
  /\ _scopesOverlap(txns[t1].storeNames, txns[t2].storeNames)

\* C4, as stated: for readwrite T1, T2 with overlapping scopes created in that
\* order, a success or error event of a request of T2 is dispatched only after
\* T1's complete event was dispatched.
C4_AfterComplete ==
  \A t1, t2 \in TxnIds, r \in ReqIds :
    (ConflictRW(t1, t2) /\ reqs[r].txn = t2 /\ reqs[r].delivered # "none")
      => txns[t1].completeFired >= 1

\* C4, amended: a success event, or an error event other than the ones T2's own
\* abort delivers, of a request of T2 is dispatched only after T1's complete
\* event or T1's abort event was dispatched.
C4_AfterCompleteOrAbort ==
  \A t1, t2 \in TxnIds, r \in ReqIds :
    (ConflictRW(t1, t2) /\ reqs[r].txn = t2 /\ reqs[r].delivered \in {"success", "error"})
      => (txns[t1].completeFired >= 1 \/ txns[t1].abortFired >= 1)

\* C4 case: T1 had a request served and completed, then a request of T2 got
\* its event.
C4_Witness ==
  \E t1, t2 \in TxnIds, r1, r2 \in ReqIds :
    /\ ConflictRW(t1, t2)
    /\ reqs[r1].txn = t1 /\ reqs[r1].delivered = "success"
    /\ txns[t1].completeFired = 1
    /\ reqs[r2].txn = t2 /\ reqs[r2].delivered = "success"

\* request r gets its success or error event in this step
Delivers(r) == reqs[r].delivered = "none" /\ reqs'[r].delivered # "none"

C7_AbortDeliversErrors ==
  \A t \in TxnIds :
    (txns[t].aborted /\ txns[t].abortFired >= 1)
      => \A r \in ReqIds :
           reqs[r].txn = t =>
             /\ reqs[r].delivered # "none"
             /\ reqs[r].delivered = "abortError" => reqs[r].error = txns[t].error

\* the complete event of t is dispatched or its task is queued
CompleteUnderWay(t) ==
  \/ txns[t].completeFired >= 1
  \/ \E i \in 1..Len(tasks) : tasks[i].type = "complete" /\ tasks[i].id = t

\* C8: without any commit() call, a transaction that reached 'finished' and was
\* not aborted went through the automatic commit: its complete event has been
\* dispatched or is queued for dispatch.
C8_AutoCommitCompletes ==
  \A t \in TxnIds :
    (txns[t].state = "finished" /\ ~txns[t].aborted) => CompleteUnderWay(t)

\* the listeners of the success/error event of request ctx.req return in this step
DispatchEnds == ctx.kind \in {"reqEvent", "idxEvent"} /\ ctx'.kind = "idle"

\* C9: when the dispatch of a request's error event ends, no listener having
\* thrown or called abort(): if no listener called preventDefault the transaction
\* is now aborted and its error is the request's error; if one did, the
\* transaction is not aborted by the event.
C9_UnpreventedErrorAborts ==
  [][(/\ DispatchEnds
      /\ reqs[ctx.req].delivered = "error"
      /\ ~reqs'[ctx.req].threw
      /\ ~txns[ctx.txn].aborted)
       => IF reqs'[ctx.req].prevented
          THEN ~txns'[ctx.txn].aborted
          ELSE /\ txns'[ctx.txn].aborted
               /\ txns'[ctx.txn].error = reqs[ctx.req].error]_vars

\* C10: a request during whose success/error dispatch a listener threw belongs
\* to an aborted transaction, whatever produced the request.
C10_ListenerThrowAborts ==
  \A r \in ReqIds : reqs[r].threw => txns[reqs[r].txn].aborted

\* C11: once the abort of an upgrade transaction is fully processed (the open
\* request has its error), the stored version, the connection's version, the
\* object store names and the index names are those found when it began.
C11_AbortRestoresMetadata ==
  \A c \in 1..Len(conns) :
    conns[c].status = "aborted"
      => /\ schema = conns[c].before.schema
         /\ dbVersion = conns[c].before.version
         /\ conns[c].version = conns[c].before.version


\* C12: reading result or error of a request fails (InvalidStateError) while
\* its ready-state is pending, and gives the value once the ready-state is done.
C12_ReadOnlyWhenDone ==
  seen.call \in {"result", "error"}
    => /\ seen.state = "pending" <=> seen.outcome.threw = "InvalidStateError"
       /\ seen.state = "done" <=> seen.outcome.threw = "none"
       /\ seen.call = "error" /\ seen.state = "done"
            => seen.outcome.value = reqs[seen.on].error

\* a pending request was read and the read failed
C12_Witness ==
  /\ seen.call = "result"
  /\ seen.state = "pending"
  /\ reqs[seen.on].readyState = "pending"
  /\ seen.outcome.threw = "InvalidStateError"

\* C13: a data operation with valid arguments (add, put, get, delete, clear,
\* count, openCursor, cursor continue/advance) called while its transaction's
\* state is not active throws TransactionInactiveError, creates no request and
\* changes no stored data.
C13_InactiveCallRejected ==
  [][(/\ seen' # seen
      /\ seen'.call \in DataKinds \cup CursorCalls
      /\ seen'.state # "active")
       => /\ seen'.outcome.threw = "TransactionInactiveError"
          /\ reqs' = reqs
          /\ records' = records
          /\ tasks' = tasks]_vars

\* a write was called on a read-only transaction that is no longer active,
\* and was rejected
C13_Witness ==
  /\ seen.call = "put"
  /\ seen.state \in {"inactive", "finished"}
  /\ txns[seen.on].mode = "readonly"
  /\ seen.outcome.threw = "TransactionInactiveError"

\* the encoded primary key stands for a key equal to k
SameKey(encoded, k) ==
  \E k2 \in DataKeys : encodeKey(k2) = encoded /\ compareKeys(k2, k) = 0

\* the index key of value v is held by a record with another primary key than k
Collides(tb, k, v) ==
  /\ v.ik # NoKey
  /\ \E row \in tb.records :
       /\ row.value.ik # NoKey
       /\ compareKeys(row.value.ik, v.ik) = 0
       /\ ~SameKey(row.key, k)

\* the index key of value v is held by the record under primary key k, and by
\* no other record
OverwritesOwn(tb, k, v) ==
  /\ v.ik # NoKey
  /\ \E row \in tb.records :
       /\ SameKey(row.key, k)
       /\ row.value.ik # NoKey
       /\ compareKeys(row.value.ik, v.ik) = 0
  /\ ~Collides(tb, k, v)

\* the step is a request of one of these kinds on the store
StoreStep(calls) ==
  /\ seen'.call \in calls
  /\ (seen'.call # seen.call \/ seen' # seen \/ table' # table)

\* C14: with a unique index, an add or put whose index key equals that of an
\* existing record with a different primary key fails with ConstraintError; a
\* put that overwrites the record holding that index key under the same
\* primary key succeeds.
C14_UniqueIndex ==
  [][StoreStep({"add", "put"})
       => /\ Collides(table, seen'.key, seen'.arg)
               => /\ seen'.outcome.threw = "ConstraintError"
                  /\ table' = table
          /\ seen'.call = "put" /\ OverwritesOwn(table, seen'.key, seen'.arg)
               => /\ seen'.outcome.threw = "none"
                  /\ getRecord(table', encodeKey(seen'.key)) = seen'.arg]_vars

\* a record is stored under a key equal to k
KeyHeld(tb, k) == \E row \in tb.records : SameKey(row.key, k)

\* C15: add with a primary key that already exists fails with ConstraintError
\* and leaves the existing record unchanged; put with an existing primary key
\* replaces that record's value.
C15_AddFailsPutReplaces ==
  [][StoreStep({"add", "put"})
       => /\ seen'.call = "add" /\ KeyHeld(table, seen'.key)
               => /\ seen'.outcome.threw = "ConstraintError"
                  /\ table'.records = table.records
          /\ (/\ seen'.call = "put"
              /\ KeyHeld(table, seen'.key)
              /\ ~Collides(table, seen'.key, seen'.arg))
               => /\ seen'.outcome.threw = "none"
                  /\ \A row \in table'.records :
                       SameKey(row.key, seen'.key) => row.value = seen'.arg
                  /\ countRecords(table') = countRecords(table)]_vars

\* what get(k) gives on table tb
GetValue(tb, k) == getOperation(tb, k).outcome.value

\* the numbers that have a value on table tb
KeysWithValue(tb) == {NumberValue(k) : k \in {k2 \in DataKeys : GetValue(tb, k2) # Undefined}}

\* C16: over successful put and delete requests, get(k) gives the value of the
\* latest put(k, v) that no delete of k followed, undefined otherwise, and
\* count() is the number of distinct keys put and not deleted since. Stated
\* step by step: a put sets the value of its key, a delete clears it, no
\* other key changes, and count() is the number of keys that have a value.
C16_GetAndCount ==
  [][StoreStep({"put", "delete", "get", "count"})
       => /\ seen'.call = "put" /\ seen'.outcome.threw = "none"
               => \A k \in DataKeys :
                    GetValue(table', k) = IF compareKeys(k, seen'.key) = 0
                                          THEN seen'.arg ELSE GetValue(table, k)
          /\ seen'.call = "delete"
               => \A k \in DataKeys :
                    GetValue(table', k) = IF compareKeys(k, seen'.key) = 0
                                          THEN Undefined ELSE GetValue(table, k)
          /\ seen'.call \in {"get", "count"} => table' = table
          /\ seen'.call = "count"
               => seen'.outcome.value = Integer(Cardinality(KeysWithValue(table)))]_vars

\* what the next put without a key would be given on table tb
NextGenerated(tb) == addOrPut(tb, NoKey, Value("a", NoKey), FALSE).outcome

\* a successful add or put with an explicit key at or above the generator's value
ExplicitAtOrAbove ==
  /\ StoreStep({"add", "put"})
  /\ seen'.key # NoKey
  /\ seen'.outcome.threw = "none"
  /\ Floor(seen'.key) >= 1
  /\ Floor(seen'.key) >= table.current_key

\* C17 (as stated): a successful put with an explicit key k at or above the
\* generator's value makes the next generated key floor(k) + 1.
C17_ExplicitKeySetsNext ==
  [][ExplicitAtOrAbove
       => NextGenerated(table') = Returns(Integer(Floor(seen'.key) + 1))]_vars

\* C17 (amended): puts without a key are given 1, 2, ... in request order; a
\* successful put with an explicit key k at or above the generator's value
\* makes the next generated key floor(k) + 1, unless floor(k) has reached the
\* generator's maximum, in which case the next put without a key fails with
\* ConstraintError; the generator moves only in a step that stored a record.
C17_KeyGenerator ==
  [][StoreStep({"add", "put"})
       => /\ seen'.key = NoKey /\ table.current_key < MAX_KEY_GENERATOR_VALUE
                              /\ seen'.outcome.threw = "none"
               => /\ seen'.outcome.value = Integer(table.current_key + 1)
                  /\ table'.current_key = table.current_key + 1
                  /\ getRecord(table', encodeKey(seen'.outcome.value)) = seen'.arg
          /\ ExplicitAtOrAbove
               => NextGenerated(table') =
                    IF Floor(seen'.key) < MAX_KEY_GENERATOR_VALUE
                    THEN Returns(Integer(Floor(seen'.key) + 1))
                    ELSE Throws("ConstraintError")
          /\ seen'.outcome.threw # "none"
               => table' = table]_vars

\* 1.5 was put, and the put without a key that followed was given 2
C17_Witness ==
  /\ seen.call = "put"
  /\ seen.key = NoKey
  /\ seen.outcome = Returns(Integer(2))
  /\ getRecord(table, encodeKey(Num(0, 3))) # Undefined
  /\ getRecord(table, encodeKey(Integer(1))) = Undefined
  /\ table.current_key = 2

\* the key that an encoded key of the cursor's store or index stands for
KeyOfEncoded(encoded) ==
  CHOOSE k \in CursorKeys \cup (IndexKeys \ {NoKey}) : encodeKey(k) = encoded

CompareEncoded(a, b) == compareKeys(KeyOfEncoded(a), KeyOfEncoded(b))

\* the step in which the cursor's request gives null: the iteration is over
IterationEnds ==
  /\ cursor' # cursor
  /\ cursor'.source # "none"
  /\ ~cursor'.gotValue

\* every entry was visited exactly once
VisitedAllOnce(visited, entries) ==
  /\ {visited[i] : i \in DOMAIN visited} = entries
  /\ Len(visited) = Cardinality(entries)

\* the keys visited never go down (up = 1) or never go up (up = -1)
VisitedInOrder(visited, up) ==
  \A i, j \in DOMAIN visited :
    i < j => CompareEncoded(visited[i].key, visited[j].key) * up <= 0

\* one entry per distinct key was visited, the one with the smallest primary key
VisitedSmallestOfEachKey(visited, entries) ==
  /\ \A e \in entries :
       Cardinality({i \in DOMAIN visited : CompareEncoded(visited[i].key, e.key) = 0}) = 1
  /\ \A i \in DOMAIN visited :
       /\ visited[i] \in entries
       /\ \A e \in entries :
            CompareEncoded(e.key, visited[i].key) = 0
              => CompareEncoded(visited[i].primary_key, e.primary_key) <= 0

\* C18: a cursor with no range, continued until its result is null, visits
\* every record exactly once, in ascending key order when forward and in
\* descending key order when reverse; a forward-unique index cursor visits one
\* entry per distinct index key, the one with the smallest primary key.
C18_CursorIteration ==
  [][IterationEnds
       => /\ cursor'.direction = "next"
               => /\ VisitedAllOnce(cursor'.visited, EntriesOf(table, cursor'.source))
                  /\ VisitedInOrder(cursor'.visited, 1)
          /\ cursor'.direction = "prev"
               => /\ VisitedAllOnce(cursor'.visited, EntriesOf(table, cursor'.source))
                  /\ VisitedInOrder(cursor'.visited, 0 - 1)
          /\ cursor'.direction = "nextunique" /\ cursor'.source = "index"
               => VisitedSmallestOfEachKey(cursor'.visited,
                                           getIndexEntriesForCursor(table))]_vars

\* the version-change transaction that was begun for connection c
UpgradeTransactionsOf(c) ==
  {t \in 1..Len(txns) : txns[t].conn = c /\ txns[t].mode = "versionchange"}

\* the task that ends transaction t's life is queued or running
Outstanding(t) ==
  \/ \E i \in 1..Len(tasks) :
       tasks[i].id = t /\ tasks[i].type \in {"complete", "abort", "vcAborted"}
  \/ ctx.txn = t /\ ctx.kind \in {"completeEvent", "abortEvent", "abortReqError"}

\* C19: an open() that resolved to a version above the stored one got
\* upgradeneeded inside a version-change transaction first; after that its
\* request gets success if and only if that transaction completed, error with
\* AbortError if and only if it aborted, and once the transaction is finished
\* one of the two is delivered or on its way.
C19_UpgradeThenSuccessOrError ==
  \A c \in 1..Len(conns) :
    conns[c].before # NoMetadata
      => /\ Cardinality(UpgradeTransactionsOf(c)) = 1
         /\ \A t \in UpgradeTransactionsOf(c) :
              /\ conns[c].status \in {"upgrading", "open", "aborted"}
              /\ conns[c].status = "open"
                   => txns[t].completeFired = 1 /\ txns[t].abortFired = 0
              /\ conns[c].status = "aborted"
                   => txns[t].abortFired = 1 /\ txns[t].completeFired = 0
              /\ conns[c].status = "upgrading" /\ txns[t].state = "finished"
                   => Outstanding(t)

\* the open steps of request c run in this step
OpenStepsRun(c) == conns[c].status = "queued" /\ conns'[c].status # "queued"

\* C20: open(name, v) with v below the stored version delivers an error event
\* with VersionError on the open request, creates no connection and no
\* transaction, and leaves the stored version as it was.
C20_LowerVersionRejected ==
  /\ [](\A c \in 1..Len(conns) :
          conns[c].status = "versionError"
            => \A t \in 1..Len(txns) : txns[t].conn # c)
  /\ [][\A c \in 1..Len(conns) :
          OpenStepsRun(c) /\ conns[c].version # 0 /\ conns[c].version < dbVersion
            => /\ conns'[c].status = "versionError"
               /\ conns'[c].upgradeTxn = 0
               /\ ctx'.kind = "openEvent"
               /\ txns' = txns
               /\ dbVersion' = dbVersion
               /\ schema' = schema]_vars

\* a request with a version below the stored one is getting its error event
C20_Witness ==
  \E c \in 1..Len(conns) :
    /\ conns[c].status = "versionError"
    /\ conns[c].version # 0 /\ conns[c].version < dbVersion
    /\ ctx.kind = "openEvent"

\* C21: for all valid keys a and b the sign of compare(a, b) is the sign of the
\* unsigned bytewise comparison of encode(a) with encode(b).
C21_EncodingKeepsOrder ==
  seen.compared # NotCalled /\ seen.encodedA # <<>>
    => seen.compared = compareUnsigned(seen.encodedA, seen.encodedB)

\* C22: for every valid key k, decode(encode(k)) is k, with the same type and
\* the same value.
C22_DecodeInvertsEncode ==
  seen.decoded # UnknownTag => seen.decoded = seen.a

\* transaction t has had its abort event and no complete event
EndedWithoutComplete(t) ==
  txns[t].state = "finished" /\ txns[t].completeFired = 0 /\ txns[t].abortFired >= 1

\* a put of transaction t on store s was executed and reported as a success
PutSucceeded(t, s) ==
  \E r \in ReqIds :
    /\ reqs[r].txn = t /\ reqs[r].store = s /\ reqs[r].kind = "put"
    /\ reqs[r].delivered = "success"

\* every request so far was made on an object store, none on an index
OnlyStoreRequests == \A r \in ReqIds : reqs[r].kind # "indexGet"

\* C23: of two transactions with disjoint scopes, each one's writes are in the
\* store afterwards exactly if that transaction itself completed: the end of
\* the other one neither discards them nor makes them permanent.  Stated for
\* requests on object stores.
C23_DisjointIsolation ==
  \A t, u \in TxnIds :
    (/\ t # u /\ ~_scopesOverlap(txns[t].storeNames, txns[u].storeNames)
     /\ OnlyStoreRequests)
      => \A s \in txns[t].storeNames :
           /\ EndedWithoutComplete(t) => records[s].writer # t
           /\ (txns[t].completeFired >= 1 /\ PutSucceeded(t, s))
                => records[s].writer = t

\* the place of request r's event task in a task queue, 0 if it has none
EventTaskAt(q, r) ==
  IF \E i \in 1..Len(q) : q[i].type = "event" /\ q[i].id = r
  THEN CHOOSE i \in 1..Len(q) : q[i].type = "event" /\ q[i].id = r
  ELSE 0

\* the storage operation of request r executes in this step: the request
\* stops being pending and its event task is queued
Executes(r) ==
  /\ r \in 1..Len(reqs')
  /\ r \in 1..Len(reqs) => reqs[r].readyState = "pending"
  /\ reqs'[r].readyState = "done"
  /\ EventTaskAt(tasks, r) = 0 /\ EventTaskAt(tasks', r) # 0

\* C24: no storage operation of a transaction made by db.transaction() executes
\* before the scheduler has started the transaction; the operations requested
\* before that are buffered and run at the start in the order of the requests.
C24_BufferedUntilStart ==
  [][\A r \in 1..Len(reqs') :
       Executes(r)
         => /\ txns'[reqs'[r].txn].useScheduler => txns'[reqs'[r].txn].started
            /\ \A q \in 1..(r - 1) :
                 reqs'[q].txn = reqs'[r].txn
                   => /\ reqs'[q].readyState = "done"
                      /\ Executes(q)
                           => EventTaskAt(tasks', q) < EventTaskAt(tasks', r)]_vars

\* two requests were buffered by a transaction that waited for its start, and
\* both have been executed and served
C24_Witness ==
  \E r1, r2 \in ReqIds :
    /\ r1 < r2 /\ reqs[r1].txn = reqs[r2].txn
    /\ txns[reqs[r1].txn].started
    /\ reqs[r1].delivered = "success" /\ reqs[r2].delivered = "success"

\* C25: when the complete event of a transaction is dispatched, every request
\* created in it has had its success or error event, whether the commit was
\* automatic or asked for by commit().  Stated for requests on object stores.
C25_EventsBeforeComplete ==
  \A t \in TxnIds :
    (txns[t].completeFired >= 1 /\ OnlyStoreRequests)
      => \A r \in ReqIds : reqs[r].txn = t => reqs[r].delivered # "none"

\* nothing is running and nothing is queued to run: the event loop is empty
Quiescent == ctx.kind = "idle" /\ tasks = <<>> /\ micro = <<>>

\* C26: every transaction registered with the scheduler is started and leaves
\* the scheduler's queue, however it ends: once the event loop has nothing
\* left to run, no transaction is still in the queue.
C26_QueueDrains == Quiescent => queue = <<>>

\* C27: over the life of a transaction at most one of the events complete and
\* abort is dispatched on it, and that one at most once.
C27_OneFinalEvent ==
  \A t \in TxnIds : txns[t].completeFired + txns[t].abortFired <= 1

\* C28: a transaction whose state is finished stays finished, whatever runs
\* afterwards.
C28_FinishedIsFinal ==
  [][\A t \in TxnIds : txns[t].state = "finished" => txns'[t].state = "finished"]_vars

\* the positions of transaction t's savepoints on the connection's stack
SavepointsOf(sp, t) == {i \in 1..Len(sp) : sp[i].name = t}

\* request r is one of the operations that write (put, add, delete, clear)
Mutates(r) == reqs'[r].kind \in WriteKinds \cup {"clear"}

\* C29: a transaction holds at most one savepoint, holds none once it is
\* finished, and a savepoint of a transaction is begun only in a step that
\* executes one of its mutating operations.
C29_SavepointLifetime ==
  /\ [](\A t \in TxnIds :
          /\ Cardinality(SavepointsOf(savepoints, t)) <= 1
          /\ txns[t].state = "finished" => SavepointsOf(savepoints, t) = {})
  /\ [][\A t \in 1..Len(txns') :
          (SavepointsOf(savepoints', t) # {} /\ SavepointsOf(savepoints, t) = {})
            => \E r \in 1..Len(reqs') :
                 reqs'[r].txn = t /\ Mutates(r) /\ Executes(r)]_vars

\* the scheduler's queue holds a started entry for transaction t
EntryStarted(q, t) == \E i \in 1..Len(q) : q[i].txn = t /\ q[i].started

\* the step runs transaction t's onStart (_schedulerStart sets _started)
OnStartRuns(t) ==
  /\ txns'[t].useScheduler /\ txns'[t].started
  /\ t \in 1..Len(txns) => ~txns[t].started

\* the step marks t's entry as started (inside addTransaction or
\* transactionFinished)
BecomesStartable(t) == EntryStarted(queue', t) /\ ~EntryStarted(queue, t)

C31_CompleteAfterStart ==
  \A t \in TxnIds :
    (txns[t].useScheduler /\ txns[t].completeFired >= 1) => txns[t].started

\* C32: a request whose success or error event has not yet been dispatched
\* has ready-state pending.
C32_PendingUntilEvent ==
  \A r \in ReqIds : reqs[r].delivered = "none" => reqs[r].readyState = "pending"

\* the open request of a connection as _runOpenSteps leaves it: ready-state,
\* result and error
OpenRequest(conn) ==
  CASE conn.status = "queued" ->
         [readyState |-> "pending", result |-> "undefined", error |-> "null"]
    [] conn.status \in {"upgrading", "open"} ->
         [readyState |-> "done", result |-> "db", error |-> "null"]
    [] conn.status = "aborted" ->
         [readyState |-> "done", result |-> "undefined", error |-> "AbortError"]
    [] OTHER ->
         [readyState |-> "done", result |-> "undefined", error |-> "VersionError"]

\* the step is a continue() or advance() that re-arms the cursor request r
ReArmed(r) == reqs'[r].continueCalled /\ ~reqs[r].continueCalled

\* the error of a request that is done stays as it is, unless a cursor call
\* re-arms the request
DoneRequestsKept ==
  \A r \in ReqIds :
    (reqs[r].readyState = "done" /\ ~ReArmed(r))
      => (reqs'[r].error = reqs[r].error
          /\ reqs'[r].constraintError = reqs[r].constraintError)

\* C33 as stated: once a request is done, its result and error never change
\* again (cursor re-arms excepted); the open request is a request too.
C33_NeverMutatedAfterDone ==
  [][/\ DoneRequestsKept
     /\ \A c \in 1..Len(conns) :
          OpenRequest(conns[c]).readyState = "done"
            => OpenRequest(conns'[c]) = OpenRequest(conns[c])]_vars

\* C33, amended: besides the cursor re-arm there is one more change after done.
\* The open request is done with the connection as result while upgradeneeded
\* is handled; if the upgrade transaction aborts, its result becomes undefined
\* and its error AbortError.
C33_DoneIsFinal ==
  [][/\ DoneRequestsKept
     /\ \A c \in 1..Len(conns) :
          OpenRequest(conns[c]).readyState = "done"
            => \/ OpenRequest(conns'[c]) = OpenRequest(conns[c])
               \/ /\ conns[c].status = "upgrading"
                  /\ txns[conns[c].upgradeTxn].aborted
                  /\ OpenRequest(conns'[c]) =
                       [readyState |-> "done", result |-> "undefined",
                        error |-> "AbortError"]]_vars

\* an upgrade has aborted, so its open request was changed after done, and a
\* request that was done when abort() was called has kept its empty error
C33_Witness ==
  /\ \E c \in 1..Len(conns) : conns[c].status = "aborted"
  /\ \E r \in ReqIds :
       /\ txns[reqs[r].txn].aborted /\ txns[reqs[r].txn].abortFired >= 1
       /\ reqs[r].readyState = "done" /\ reqs[r].error = NoError

\* C34: after the abort of a version-change transaction every store or index
\* handle created in it is marked deleted, and every other handle (deleted or
\* renamed in it, or left alone) is not deleted and has its former name.
C34_AbortRevertsHandles ==
  handles.state = "aborted"
    => /\ \A s \in 1..Len(handles.stores) :
            IF handles.stores[s].created THEN handles.stores[s].deleted
            ELSE ~handles.stores[s].deleted
                 /\ handles.stores[s].name = handles.stores[s].before
       /\ \A x \in 1..Len(handles.indexes) :
            handles.indexes[x].created <=> handles.indexes[x].deleted

\* the step is a createIndex whose back-population hit the unique constraint
PopulationFails == handles'.constraintViolated /\ ~handles.constraintViolated

\* C35: a createIndex whose back-population finds a duplicate in a unique
\* index returns the new handle while the transaction is not yet aborted; the
\* abort comes afterwards.
C35_AbortAfterCreateIndexReturns ==
  [][PopulationFails
       => /\ Len(handles'.indexes) = Len(handles.indexes) + 1
          /\ handles'.indexes[Len(handles'.indexes)].created
          /\ handles'.state = "active"]_vars

\* C36: every entry of the index refers to a primary key that has a record in
\* the store.
C36_IndexEntriesHaveRecords ==
  \A e \in table.index_entries : \E row \in table.records : row.key = e.primary_key

\* C37: in a unique index no index key is associated with two different
\* primary keys, after add, put and createIndex's back-population, multiEntry
\* indexes included.
C37_UniqueIndexKeys ==
  table.unique =>
    \A e1, e2 \in table.index_entries : e1.key = e2.key => e1.primary_key = e2.primary_key

\* the step in which a transaction aborts
AbortStep == savepoints # <<>> /\ savepoints' = <<>> /\ seen'.call = "abort"

C39_ContinueReArms ==
  [][\A r \in DOMAIN reqs :
       ReArmed(r)
         => /\ Len(reqs') = Len(reqs)
            /\ reqs'[r].readyState = "pending"
            /\ txns'[reqs[r].txn].pendingRequestCount =
                 txns[reqs[r].txn].pendingRequestCount + 1]_vars

\* the events that transaction t still owes its requests, each re-arm of a
\* cursor request counted: the requests buffered until the transaction starts
\* and the event callbacks that wait as tasks
Undelivered(t) ==
  Len(txns[t].pendingCallbacks)
    + Cardinality({i \in DOMAIN tasks :
                     tasks[i].type = "event" /\ reqs[tasks[i].id].txn = t})

\* the event of transaction t that is being delivered: its listeners run, or
\* the microtasks that end its dispatch are still to run
InDelivery(t) ==
  (IF ctx.kind \in {"reqEvent", "idxEvent"} /\ ctx.txn = t THEN 1 ELSE 0)
    + Cardinality({i \in DOMAIN micro :
                     micro[i].type \in {"post1", "post2"} /\ micro[i].txn = t})

\* C40: a transaction's pending-request counter is never negative, and while
\* the transaction is neither aborted nor finished it equals the number of its
\* requests, each cursor re-arm counted, whose event has not yet been
\* delivered; an event is delivered once the microtasks that end its dispatch
\* have run.
C40_CounterIsUndelivered ==
  \A t \in DOMAIN txns :
    /\ txns[t].pendingRequestCount >= 0
    /\ (~txns[t].aborted /\ txns[t].state # "finished")
         => txns[t].pendingRequestCount = Undelivered(t) + InDelivery(t)

====
